---- MODULE Spec2Model ----
(***************************************************************************)
(* Weather-event aggregation pipeline (preprocess_weather_data.py) and the *)
(* degree-day query layer (weather_data_integration.py).                   *)
(*                                                                         *)
(* Numbers: Python floats are modelled as exact rationals <<n, d>> in      *)
(* lowest terms with d > 0; None / SQL NULL is the empty tuple <<>>.       *)
(* Input cells are what pandas.read_csv hands to the code: a text column   *)
(* holds a string ("NaN" when the cell is missing); a numeric or timestamp *)
(* column holds a tagged record (nan, num, ts, or text when the cell does  *)
(* not parse).                                                             *)
(***************************************************************************)
EXTENDS Integers, Sequences, FiniteSets, Bags, TLC

\* ------------------------------------------------------------------ bounds
\* Longest input stream (number of CSV data rows).
MaxLen == 3
\* Largest chunk_size parameter tried (the code's default is 100000).
MaxChunk == 2
\* Number of pipeline runs against the same store.
MaxRuns == 2
\* longest consumption series handed to the normalization
MaxSeries == 2

\* --------------------------------------------------------------- rationals
None == <<>>

Abs(n) == IF n < 0 THEN -n ELSE n

RECURSIVE GCD(_, _)
GCD(a, b) == IF b = 0 THEN a ELSE GCD(b, a % b)

\* The rational n/d (d # 0) in lowest terms with a positive denominator.
Rat(n, d) ==
    LET s == IF d < 0 THEN -1 ELSE 1
        g == GCD(Abs(n), Abs(d))
    IN  <<(s * n) \div g, (s * d) \div g>>

RInt(n) == <<n, 1>>
RAdd(a, b) == Rat(a[1] * b[2] + b[1] * a[2], a[2] * b[2])
RSub(a, b) == Rat(a[1] * b[2] - b[1] * a[2], a[2] * b[2])
RMul(a, b) == Rat(a[1] * b[1], a[2] * b[2])
RDiv(a, b) == Rat(a[1] * b[2], a[2] * b[1])
RLe(a, b) == a[1] * b[2] <= b[1] * a[2]
RLt(a, b) == a[1] * b[2] < b[1] * a[2]
RMax(a, b) == IF RLe(a, b) THEN b ELSE a
RMin(a, b) == IF RLe(a, b) THEN a ELSE b

RECURSIVE RSum(_)
RSum(s) == IF s = <<>> THEN RInt(0) ELSE RAdd(Head(s), RSum(Tail(s)))

\* sum(xs) / len(xs) for a non-empty list
RMean(s) == RDiv(RSum(s), RInt(Len(s)))

RECURSIVE RMinSeq(_)
RMinSeq(s) == IF Len(s) = 1 THEN s[1] ELSE RMin(Head(s), RMinSeq(Tail(s)))

RECURSIVE RMaxSeq(_)
RMaxSeq(s) == IF Len(s) = 1 THEN s[1] ELSE RMax(Head(s), RMaxSeq(Tail(s)))

\* ---------------------------------------------------------------- calendar
\* A date is <<year, month, day>>; its ISO text 'YYYY-MM-DD' orders as the tuple.
IsLeap(y) == (y % 4 = 0 /\ y % 100 # 0) \/ y % 400 = 0

DaysBeforeMonth(y, m) ==
    LET t == <<0, 31, 59, 90, 120, 151, 181, 212, 243, 273, 304, 334>>
    IN  t[m] + (IF m > 2 /\ IsLeap(y) THEN 1 ELSE 0)

\* datetime.toordinal(): days since 0001-01-01, plus one
Ordinal(date) ==
    LET y == date[1] - 1
    IN  365 * y + (y \div 4) - (y \div 100) + (y \div 400)
        + DaysBeforeMonth(date[1], date[2]) + date[3]

\* string comparison of two ISO dates: a <= b
DateLe(a, b) ==
    \/ a[1] < b[1]
    \/ a[1] = b[1] /\ a[2] < b[2]
    \/ a[1] = b[1] /\ a[2] = b[2] /\ a[3] <= b[3]

\* ------------------------------------------------------------- input cells
NaN == [k |-> "nan"]
Text == [k |-> "text"]
Num(v) == [k |-> "num", v |-> v]
Ts(date, hour) == [k |-> "ts", date |-> date, hour |-> hour]

\* pd.isna of a numeric / timestamp cell, and of a text cell
isna(c) == c.k = "nan"
isnaStr(s) == s = "NaN"

\* ------------------------------------------------------------ constants
BASE_TEMP_HEATING == 65
BASE_TEMP_COOLING == 65

\* variant: rain counts as severe
SEVERE_WEATHER_TYPES_with_rain ==
    {"Cold", "Snow", "Thunderstorm", "Hail", "Hurricane", "Tornado", "Heat", "Rain"}

SEVERE_WEATHER_TYPES ==
    {"Cold", "Snow", "Thunderstorm", "Hail", "Hurricane", "Tornado", "Heat"}

required_columns ==
    {"EventId", "Type", "Severity", "StartTime(UTC)", "EndTime(UTC)",
     "Precipitation(in)", "TimeZone", "LocationLat", "LocationLng",
     "City", "County", "State", "ZipCode"}

\* ----------------------------------------------------------- pure functions
\* variant: the else branch of Heat is missing (a Heat event of another
\* severity has no temperature)
extract_temperature_no_else(severity, event_type) ==
    IF event_type = "Cold" THEN
        IF severity = "Extreme" THEN RInt(10)
        ELSE IF severity = "Severe" THEN RInt(20)
        ELSE IF severity = "Moderate" THEN RInt(30)
        ELSE RInt(40)
    ELSE IF event_type = "Heat" THEN
        IF severity = "Extreme" THEN RInt(105)
        ELSE IF severity = "Severe" THEN RInt(100)
        ELSE IF severity = "Moderate" THEN RInt(95)
        ELSE None
    ELSE None

\* extract_temperature(severity, event_type): degrees F, or None
extract_temperature(severity, event_type) ==
    IF event_type = "Cold" THEN
        IF severity = "Extreme" THEN RInt(10)
        ELSE IF severity = "Severe" THEN RInt(20)
        ELSE IF severity = "Moderate" THEN RInt(30)
        ELSE RInt(40)
    ELSE IF event_type = "Heat" THEN
        IF severity = "Extreme" THEN RInt(105)
        ELSE IF severity = "Severe" THEN RInt(100)
        ELSE IF severity = "Moderate" THEN RInt(95)
        ELSE RInt(90)
    ELSE None

\* base_impacts.get(event_type, 1.0)
base_impact(event_type) ==
    CASE event_type = "Cold" -> Rat(90, 10)
      [] event_type = "Heat" -> Rat(85, 10)
      [] event_type = "Snow" -> Rat(70, 10)
      [] event_type = "Thunderstorm" -> Rat(60, 10)
      [] event_type = "Rain" -> Rat(40, 10)
      [] event_type = "Fog" -> Rat(20, 10)
      [] event_type = "Hail" -> Rat(50, 10)
      [] event_type = "Wind" -> Rat(30, 10)
      [] event_type = "Hurricane" -> Rat(100, 10)
      [] event_type = "Tornado" -> Rat(100, 10)
      [] event_type = "Precipitation" -> Rat(35, 10)
      [] event_type = "Cloudy" -> Rat(10, 10)
      [] OTHER -> Rat(10, 10)

\* variant: Heavy is not in the table and gets the default
severity_multiplier_no_heavy(severity) ==
    CASE severity = "Extreme" -> Rat(10, 10)
      [] severity = "Severe" -> Rat(8, 10)
      [] severity = "Moderate" -> Rat(6, 10)
      [] severity = "Light" -> Rat(3, 10)
      [] OTHER -> Rat(5, 10)

\* severity_multipliers.get(severity, 0.5)
severity_multiplier(severity) ==
    CASE severity = "Extreme" -> Rat(10, 10)
      [] severity = "Severe" -> Rat(8, 10)
      [] severity = "Moderate" -> Rat(6, 10)
      [] severity = "Light" -> Rat(3, 10)
      [] severity = "Heavy" -> Rat(9, 10)
      [] severity = "UNK" -> Rat(5, 10)
      [] OTHER -> Rat(5, 10)

\* variant: the duration is not capped at 24 hours
duration_factor_uncapped(duration_hours) == RDiv(duration_hours, RInt(24))

\* min(duration_hours, 24) / 24.0
duration_factor(duration_hours) == RDiv(RMin(duration_hours, RInt(24)), RInt(24))

calculate_event_impact_score(event_type, severity, duration_hours) ==
    LET impact_score ==
            RMul(RMul(base_impact(event_type), severity_multiplier(severity)),
                 RAdd(Rat(1, 2), RMul(Rat(1, 2), duration_factor(duration_hours))))
    IN  RMin(RInt(10), impact_score)

\* severity_map.get(severity, 2.0)
severity_value(severity) ==
    CASE severity = "Extreme" -> Rat(40, 10)
      [] severity = "Severe" -> Rat(30, 10)
      [] severity = "Moderate" -> Rat(20, 10)
      [] severity = "Light" -> Rat(10, 10)
      [] severity = "Heavy" -> Rat(35, 10)
      [] severity = "UNK" -> Rat(20, 10)
      [] OTHER -> Rat(20, 10)

\* variant: a missing latitude leaves the zone unset (0)
estimate_climate_zone_unset(latitude) ==
    IF isna(latitude) THEN 0
    ELSE LET abs_lat == Abs(latitude.v)
         IN  IF abs_lat < 27 THEN 1
             ELSE IF abs_lat < 34 THEN 2
             ELSE IF abs_lat < 40 THEN 3
             ELSE IF abs_lat < 45 THEN 4
             ELSE 5

\* estimate_climate_zone(latitude, longitude); every comparison with a NaN
\* latitude is false, which leaves the final else
estimate_climate_zone(latitude) ==
    IF isna(latitude) THEN 5
    ELSE LET abs_lat == Abs(latitude.v)
         IN  IF abs_lat < 27 THEN 1
             ELSE IF abs_lat < 34 THEN 2
             ELSE IF abs_lat < 40 THEN 3
             ELSE IF abs_lat < 45 THEN 4
             ELSE 5

\* (EndTime - StartTime) / pd.Timedelta(hours=1); no guard against end < start
duration_hours(event) ==
    RInt(24 * (Ordinal(event.End.date) - Ordinal(event.Start.date))
         + event.End.hour - event.Start.hour)

\* ------------------------------------------------------- accumulation maps
\* A Python dict is a function; dict[k] = v adds or overwrites k.
EmptyDict == [k \in {} |-> None]
Put(dict, k, v) == [x \in (DOMAIN dict) \cup {k} |-> IF x = k THEN v ELSE dict[x]]

\* pandas infers a column's dtype per chunk: ZipCode is int64 when every cell
\* of the chunk holds an integer and float64 as soon as one cell is missing,
\* and Precipitation(in) is an object column of strings as soon as one cell
\* is not a number.
zip_is_float(chunk) == \E i \in 1..Len(chunk) : isna(chunk[i].ZipCode)
precip_is_text(chunk) == \E i \in 1..Len(chunk) : chunk[i].Precipitation.k = "text"

\* f"{zip}": 90210 for an int64 cell, 90210.0 for a float64 cell
zip_text(zip, is_float) == <<zip.v, IF is_float THEN ".0" ELSE "">>

\* location_id = f"{event['ZipCode']}_{event['State']}"
make_location_id(event, is_float) ==
    zip_text(event.ZipCode, is_float) \o <<"_", event.State>>

\* chunk.dropna(subset=['StartTime(UTC)', 'EndTime(UTC)', 'Type', 'Severity'])
dropna_keeps(event) ==
    /\ ~isna(event.Start)
    /\ ~isna(event.End)
    /\ ~isnaStr(event.Type)
    /\ ~isnaStr(event.Severity)

\* the loop's own skip: pd.isna(ZipCode) or pd.isna(State)
missing_location(event) == isna(event.ZipCode) \/ isnaStr(event.State)

\* a record the loop body runs on
accepted(event) == dropna_keeps(event) /\ ~missing_location(event)

\* pd.to_datetime raises on a cell that is no date
to_datetime_raises(chunk) ==
    \E i \in 1..Len(chunk) :
        /\ dropna_keeps(chunk[i])
        /\ (chunk[i].Start.k = "text" \/ chunk[i].End.k = "text")

new_daily == [temp_values |-> <<>>, precipitation |-> RInt(0),
              severe_events |-> 0, impact_scores |-> <<>>]
new_monthly == [temp_values |-> <<>>, precipitation |-> RInt(0),
                severe_event_days |-> {}, impact_scores |-> <<>>]
new_event == [count |-> 0, duration_total |-> RInt(0),
              severity_values |-> <<>>, impact_scores |-> <<>>]

\* variant: every record overwrites the attributes of its location
update_location_latest(location_data, location_id, event, is_float) ==
    LET count == IF location_id \in DOMAIN location_data
                 THEN location_data[location_id].event_count ELSE 0
    IN  Put(location_data, location_id,
            [zip_code |-> zip_text(event.ZipCode, is_float),
             city |-> event.City,
             county |-> event.County,
             state |-> event.State,
             latitude |-> event.LocationLat,
             longitude |-> event.LocationLng,
             event_count |-> count + 1,
             climate_zone |-> estimate_climate_zone(event.LocationLat)])

\* lines 389-402: create the location on first sight, count the event
update_location(location_data, location_id, event, is_float) ==
    LET cur == IF location_id \in DOMAIN location_data
               THEN location_data[location_id]
               ELSE [zip_code |-> zip_text(event.ZipCode, is_float),
                     city |-> event.City,
                     county |-> event.County,
                     state |-> event.State,
                     latitude |-> event.LocationLat,
                     longitude |-> event.LocationLng,
                     event_count |-> 0,
                     climate_zone |-> estimate_climate_zone(event.LocationLat)]
    IN  Put(location_data, location_id,
            [cur EXCEPT !.event_count = cur.event_count + 1])

\* variant: the entry keeps only the latest temperature sample
update_daily_temp_last(daily_weather, key, temp) ==
    LET cur == IF key \in DOMAIN daily_weather THEN daily_weather[key] ELSE new_daily
    IN  Put(daily_weather, key,
            IF temp # None THEN [cur EXCEPT !.temp_values = <<temp>>] ELSE cur)

\* lines 404-419: the daily entry and its temperature sample
update_daily_temp(daily_weather, key, temp) ==
    LET cur == IF key \in DOMAIN daily_weather THEN daily_weather[key] ELSE new_daily
    IN  Put(daily_weather, key,
            IF temp # None
            THEN [cur EXCEPT !.temp_values = Append(cur.temp_values, temp)]
            ELSE cur)

\* lines 421-435: precipitation, severe-event counter, impact score
update_daily_rest(daily_weather, key, event, impact_score) ==
    LET cur == daily_weather[key]
    IN  Put(daily_weather, key,
            [cur EXCEPT
               !.precipitation =
                   IF ~isna(event.Precipitation)
                   THEN RAdd(cur.precipitation, Rat(event.Precipitation.v, 100))
                   ELSE cur.precipitation,
               !.severe_events =
                   IF event.Type \in SEVERE_WEATHER_TYPES
                   THEN cur.severe_events + 1 ELSE cur.severe_events,
               !.impact_scores = Append(cur.impact_scores, impact_score)])

\* variant: the monthly entry takes the precipitation of the latest record
update_monthly_latest_rain(monthly_stats, key, event, local_date, temp, impact_score) ==
    LET cur == IF key \in DOMAIN monthly_stats THEN monthly_stats[key] ELSE new_monthly
    IN  Put(monthly_stats, key,
            [cur EXCEPT
               !.temp_values =
                   IF temp # None THEN Append(cur.temp_values, temp)
                   ELSE cur.temp_values,
               !.precipitation =
                   IF ~isna(event.Precipitation)
                   THEN Rat(event.Precipitation.v, 100)
                   ELSE cur.precipitation,
               !.severe_event_days =
                   IF event.Type \in SEVERE_WEATHER_TYPES
                   THEN cur.severe_event_days \cup {local_date}
                   ELSE cur.severe_event_days,
               !.impact_scores = Append(cur.impact_scores, impact_score)])

\* lines 437-465
update_monthly(monthly_stats, key, event, local_date, temp, impact_score) ==
    LET cur == IF key \in DOMAIN monthly_stats THEN monthly_stats[key] ELSE new_monthly
    IN  Put(monthly_stats, key,
            [cur EXCEPT
               !.temp_values =
                   IF temp # None THEN Append(cur.temp_values, temp)
                   ELSE cur.temp_values,
               !.precipitation =
                   IF ~isna(event.Precipitation)
                   THEN RAdd(cur.precipitation, Rat(event.Precipitation.v, 100))
                   ELSE cur.precipitation,
               !.severe_event_days =
                   IF event.Type \in SEVERE_WEATHER_TYPES
                   THEN cur.severe_event_days \cup {local_date}
                   ELSE cur.severe_event_days,
               !.impact_scores = Append(cur.impact_scores, impact_score)])

\* lines 467-493
update_event(event_stats, key, event, impact_score) ==
    LET cur == IF key \in DOMAIN event_stats THEN event_stats[key] ELSE new_event
    IN  Put(event_stats, key,
            [cur EXCEPT
               !.count = cur.count + 1,
               !.duration_total = RAdd(cur.duration_total, duration_hours(event)),
               !.severity_values =
                   Append(cur.severity_values, severity_value(event.Severity)),
               !.impact_scores = Append(cur.impact_scores, impact_score)])

\* lines 366-493: the loop body on one row of the cleaned chunk. acc holds the
\* four maps and whether an exception has left the loop.
process_event(acc, event, is_float, is_text) ==
    IF acc.raised \/ missing_location(event) THEN acc
    ELSE
      LET location_id == make_location_id(event, is_float)
          local_date == event.Start.date
          year == event.Start.date[1]
          month == event.Start.date[2]
          locs == update_location(acc.location_data, location_id, event, is_float)
          temp == extract_temperature(event.Severity, event.Type)
          daily1 == update_daily_temp(acc.daily_weather, <<location_id, local_date>>, temp)
          impact_score ==
              calculate_event_impact_score(event.Type, event.Severity,
                                           duration_hours(event))
      IN  IF ~isna(event.Precipitation) /\ is_text
          THEN \* float += str raises TypeError at line 423
               [acc EXCEPT !.location_data = locs, !.daily_weather = daily1,
                           !.raised = TRUE]
          ELSE [location_data |-> locs,
                daily_weather |->
                    update_daily_rest(daily1, <<location_id, local_date>>,
                                      event, impact_score),
                monthly_stats |->
                    update_monthly(acc.monthly_stats, <<location_id, year, month>>,
                                   event, local_date, temp, impact_score),
                event_stats |->
                    update_event(acc.event_stats, <<location_id, event.Type>>,
                                 event, impact_score),
                raised |-> FALSE]

RECURSIVE iterrows(_, _, _, _)
iterrows(acc, rows, is_float, is_text) ==
    IF rows = <<>> THEN acc
    ELSE iterrows(process_event(acc, Head(rows), is_float, is_text),
                  Tail(rows), is_float, is_text)

\* process_chunk: dropna, to_datetime, then the loop
process_chunk(acc, chunk) ==
    IF to_datetime_raises(chunk) THEN [acc EXCEPT !.raised = TRUE]
    ELSE iterrows(acc, SelectSeq(chunk, dropna_keeps),
                  zip_is_float(chunk), precip_is_text(chunk))

\* ------------------------------------------------------------ store rows
\* variant: the difference is not floored at 0
heating_degree_days_signed(avg_temp) == RSub(RInt(BASE_TEMP_HEATING), avg_temp)

\* hdd / cdd of an average temperature
heating_degree_days(avg_temp) == RMax(RInt(0), RSub(RInt(BASE_TEMP_HEATING), avg_temp))
cooling_degree_days(avg_temp) == RMax(RInt(0), RSub(avg_temp, RInt(BASE_TEMP_COOLING)))

\* sum(xs) / len(xs) if xs else 0
mean_or_zero(xs) == IF xs # <<>> THEN RMean(xs) ELSE RInt(0)

\* save_daily_weather_data, lines 531-566
daily_row(key, data) ==
    LET has == data.temp_values # <<>>
        avg_temp == IF has THEN RMean(data.temp_values) ELSE None
    IN  [date |-> key[2],
         location_id |-> key[1],
         avg_temp |-> avg_temp,
         min_temp |-> IF has THEN RMinSeq(data.temp_values) ELSE None,
         max_temp |-> IF has THEN RMaxSeq(data.temp_values) ELSE None,
         precipitation |-> data.precipitation,
         heating_degree_days |-> IF has THEN heating_degree_days(avg_temp) ELSE RInt(0),
         cooling_degree_days |-> IF has THEN cooling_degree_days(avg_temp) ELSE RInt(0),
         severe_events |-> data.severe_events,
         impact_score |-> mean_or_zero(data.impact_scores)]

\* variant: the row is stored under the ZIP code alone
location_row_by_zip(location_id, data) ==
    [location_id |-> data.zip_code,
     zip_code |-> data.zip_code,
     city |-> data.city,
     county |-> data.county,
     state |-> data.state,
     latitude |-> data.latitude,
     longitude |-> data.longitude,
     climate_zone |-> data.climate_zone,
     event_frequency |-> Rat(data.event_count, 7)]

\* save_location_data, lines 596-612
location_row(location_id, data) ==
    [location_id |-> location_id,
     zip_code |-> data.zip_code,
     city |-> data.city,
     county |-> data.county,
     state |-> data.state,
     latitude |-> data.latitude,
     longitude |-> data.longitude,
     climate_zone |-> data.climate_zone,
     event_frequency |-> Rat(data.event_count, 7)]

days_in_month == 30

\* variant: the totals use the length of the calendar month
monthly_row_calendar(key, data) ==
    LET has == data.temp_values # <<>>
        avg_temp == IF has THEN RMean(data.temp_values) ELSE None
        days == IF key[3] = 12 THEN 31
                ELSE DaysBeforeMonth(key[2], key[3] + 1) - DaysBeforeMonth(key[2], key[3])
    IN  [year |-> key[2],
         month |-> key[3],
         location_id |-> key[1],
         avg_temp |-> avg_temp,
         total_heating_degree_days |->
             IF has THEN RMul(heating_degree_days(avg_temp), RInt(days))
             ELSE RInt(0),
         total_cooling_degree_days |->
             IF has THEN RMul(cooling_degree_days(avg_temp), RInt(days))
             ELSE RInt(0),
         precipitation |-> data.precipitation,
         severe_event_days |-> Cardinality(data.severe_event_days),
         avg_impact_score |-> mean_or_zero(data.impact_scores)]

\* save_monthly_statistics, lines 669-708
monthly_row(key, data) ==
    LET has == data.temp_values # <<>>
        avg_temp == IF has THEN RMean(data.temp_values) ELSE None
    IN  [year |-> key[2],
         month |-> key[3],
         location_id |-> key[1],
         avg_temp |-> avg_temp,
         total_heating_degree_days |->
             IF has THEN RMul(heating_degree_days(avg_temp), RInt(days_in_month))
             ELSE RInt(0),
         total_cooling_degree_days |->
             IF has THEN RMul(cooling_degree_days(avg_temp), RInt(days_in_month))
             ELSE RInt(0),
         precipitation |-> data.precipitation,
         severe_event_days |-> Cardinality(data.severe_event_days),
         avg_impact_score |-> mean_or_zero(data.impact_scores)]

\* save_event_statistics, lines 739-764
event_row(key, data) ==
    [location_id |-> key[1],
     event_type |-> key[2],
     count |-> data.count,
     avg_duration |->
         IF data.count > 0 THEN RDiv(data.duration_total, RInt(data.count))
         ELSE RInt(0),
     avg_severity |-> mean_or_zero(data.severity_values),
     energy_impact_score |-> mean_or_zero(data.impact_scores)]

\* ------------------------------------------------------------------ store
\* A table is a bag of rows. The primary keys of the four tables (create_tables):
pk_locations == {"location_id"}
pk_daily_weather == {"date", "location_id"}
pk_monthly_stats == {"year", "month", "location_id"}
pk_event_stats == {"location_id", "event_type"}

\* the primary-key value of a row
key_of(row, pk) == [c \in pk |-> row[c]]

\* variant: a plain INSERT into a table without a primary key
insert_plain(table, row, pk) == table (+) SetToBag({row})

\* INSERT OR REPLACE INTO table VALUES row: the row with the same primary key goes
insert_or_replace(table, row, pk) ==
    LET kept == {r \in DOMAIN table : key_of(r, pk) # key_of(row, pk)}
    IN  [r \in kept |-> table[r]] (+) SetToBag({row})

\* conn.executemany over data_to_insert, batch after batch of batch_size rows
RECURSIVE executemany(_, _, _)
executemany(table, rows, pk) ==
    IF rows = {} THEN table
    ELSE LET row == CHOOSE r \in rows : TRUE
         IN  executemany(insert_or_replace(table, row, pk), rows \ {row}, pk)

\* ------------------------------------------------------------ SQL helpers
\* the rows of a table that satisfy a WHERE clause are a sub-bag of it
sub_bag(table, rows) == [r \in rows |-> table[r]]

RECURSIVE repeat(_, _)
repeat(v, n) == IF n = 0 THEN <<>> ELSE <<v>> \o repeat(v, n - 1)

\* the non-NULL values of a column over a bag of rows, each as often as its row
RECURSIVE column_values(_, _)
column_values(bag, col) ==
    IF DOMAIN bag = {} THEN <<>>
    ELSE LET r == CHOOSE x \in DOMAIN bag : TRUE
             rest == [x \in (DOMAIN bag) \ {r} |-> bag[x]]
         IN  (IF r[col] = None THEN <<>> ELSE repeat(r[col], bag[r]))
             \o column_values(rest, col)

\* COUNT(*), SUM(col), AVG(col): SUM and AVG skip NULLs and are NULL over nothing
sql_count(bag) == BagCardinality(bag)
sql_sum(bag, col) ==
    LET vs == column_values(bag, col) IN IF vs = <<>> THEN None ELSE RSum(vs)
sql_avg(bag, col) ==
    LET vs == column_values(bag, col) IN IF vs = <<>> THEN None ELSE RMean(vs)

\* x or 0
or_zero(x) == IF x = None THEN RInt(0) ELSE x

\* ------------------------------------------------- find_nearest_location
\* variant: without the lookup by state
find_nearest_location_no_state(db, zip_code, state) ==
    LET exact == {r \in DOMAIN db.locations :
                     r.zip_code = zip_code /\ (state # "" => r.state = state)}
        any == DOMAIN db.locations
    IN  IF exact # {} THEN {[found |-> TRUE, row |-> r] : r \in exact}
        ELSE IF any # {} THEN {[found |-> TRUE, row |-> r] : r \in any}
        ELSE {[found |-> FALSE]}

\* lines 55-101: the answers the call can give, a row (found) or None;
\* fetchone takes the first row of a SELECT that has no ORDER BY. state ""
\* stands for None and for '', both false in `if state`.
find_nearest_location(db, zip_code, state) ==
    LET exact == {r \in DOMAIN db.locations :
                     r.zip_code = zip_code /\ (state # "" => r.state = state)}
        same_state == IF state # ""
                      THEN {r \in DOMAIN db.locations : r.state = state}
                      ELSE {}
        any == DOMAIN db.locations
    IN  IF exact # {} THEN {[found |-> TRUE, row |-> r] : r \in exact}
        ELSE IF same_state # {} THEN {[found |-> TRUE, row |-> r] : r \in same_state}
        ELSE IF any # {} THEN {[found |-> TRUE, row |-> r] : r \in any}
        ELSE {[found |-> FALSE]}

\* ------------------------------------------------------- get_degree_days
\* variant: the end date is excluded (date < end)
daily_in_range_open(db, location_id, start_date, end_date) ==
    [r \in {x \in DOMAIN db.daily_weather :
                /\ x.location_id = location_id
                /\ DateLe(start_date, x.date)
                /\ DateLe(x.date, end_date)
                /\ x.date # end_date} |-> db.daily_weather[r]]

\* WHERE location_id = ? AND date >= ? AND date <= ?
daily_in_range(db, location_id, start_date, end_date) ==
    sub_bag(db.daily_weather,
            {r \in DOMAIN db.daily_weather :
                /\ r.location_id = location_id
                /\ DateLe(start_date, r.date)
                /\ DateLe(r.date, end_date)})

\* variant: the start month is excluded (month > start month)
monthly_in_range_strict(db, location_id, start_date, end_date) ==
    [r \in {x \in DOMAIN db.monthly_stats :
                /\ x.location_id = location_id
                /\ ((x.year = start_date[1] /\ x.month > start_date[2])
                    \/ x.year > start_date[1])
                /\ ((x.year = end_date[1] /\ x.month <= end_date[2])
                    \/ x.year < end_date[1])} |-> db.monthly_stats[r]]

\* WHERE location_id = ? AND ((year = ? AND month >= ?) OR (year > ?))
\*                       AND ((year = ? AND month <= ?) OR (year < ?))
monthly_in_range(db, location_id, start_date, end_date) ==
    sub_bag(db.monthly_stats,
            {r \in DOMAIN db.monthly_stats :
                /\ r.location_id = location_id
                /\ ((r.year = start_date[1] /\ r.month >= start_date[2])
                    \/ r.year > start_date[1])
                /\ ((r.year = end_date[1] /\ r.month <= end_date[2])
                    \/ r.year < end_date[1])})

\* (end - start).days + 1
days_diff(start_date, end_date) == Ordinal(end_date) - Ordinal(start_date) + 1

\* AVG(col / 30) over the monthly rows
avg_daily(bag, col) ==
    LET vs == column_values(bag, col)
    IN  IF vs = <<>> THEN None
        ELSE RMean([i \in 1..Len(vs) |-> RDiv(vs[i], RInt(30))])

\* variant: the WHERE clause on location_id is left out
location_rows_any(db, location_id) == DOMAIN db.locations

\* SELECT climate_zone FROM locations WHERE location_id = ?  (fetchone)
location_rows(db, location_id) ==
    {r \in DOMAIN db.locations : r.location_id = location_id}

zone_estimates ==
    [z \in 1..5 |->
        CASE z = 1 -> [hdd |-> Rat(5, 10), cdd |-> Rat(80, 10)]
          [] z = 2 -> [hdd |-> Rat(20, 10), cdd |-> Rat(50, 10)]
          [] z = 3 -> [hdd |-> Rat(50, 10), cdd |-> Rat(30, 10)]
          [] z = 4 -> [hdd |-> Rat(80, 10), cdd |-> Rat(10, 10)]
          [] z = 5 -> [hdd |-> Rat(120, 10), cdd |-> Rat(5, 10)]]

\* lines 139-173: the monthly-average tier
monthly_tier(monthly, n_days) ==
    [total_hdd |-> RMul(avg_daily(monthly, "total_heating_degree_days"), RInt(n_days)),
     total_cdd |-> RMul(avg_daily(monthly, "total_cooling_degree_days"), RInt(n_days)),
     avg_hdd |-> avg_daily(monthly, "total_heating_degree_days"),
     avg_cdd |-> avg_daily(monthly, "total_cooling_degree_days"),
     days_count |-> n_days,
     is_estimated |-> TRUE]

\* variant: the rates of the next zone are used
climate_zone_tier_next(climate_zone, n_days) ==
    LET est == zone_estimates[IF climate_zone < 5 THEN climate_zone + 1 ELSE 1]
    IN  [total_hdd |-> RMul(est.hdd, RInt(n_days)),
         total_cdd |-> RMul(est.cdd, RInt(n_days)),
         avg_hdd |-> est.hdd,
         avg_cdd |-> est.cdd,
         days_count |-> n_days,
         is_estimated |-> TRUE,
         estimation_method |-> "climate_zone"]

\* lines 192-202: the climate-zone tier
climate_zone_tier(climate_zone, n_days) ==
    LET est == zone_estimates[climate_zone]
    IN  [total_hdd |-> RMul(est.hdd, RInt(n_days)),
         total_cdd |-> RMul(est.cdd, RInt(n_days)),
         avg_hdd |-> est.hdd,
         avg_cdd |-> est.cdd,
         days_count |-> n_days,
         is_estimated |-> TRUE,
         estimation_method |-> "climate_zone"]

\* lines 204-213: the last resort
generic_tier(n_days) ==
    [total_hdd |-> RMul(RInt(5), RInt(n_days)),
     total_cdd |-> RMul(RInt(3), RInt(n_days)),
     avg_hdd |-> RInt(5),
     avg_cdd |-> RInt(3),
     days_count |-> n_days,
     is_estimated |-> TRUE,
     estimation_method |-> "generic"]

\* lines 215-222: the exact tier
exact_tier(daily) ==
    [total_hdd |-> or_zero(sql_sum(daily, "heating_degree_days")),
     total_cdd |-> or_zero(sql_sum(daily, "cooling_degree_days")),
     avg_hdd |-> or_zero(sql_avg(daily, "heating_degree_days")),
     avg_cdd |-> or_zero(sql_avg(daily, "cooling_degree_days")),
     days_count |-> sql_count(daily),
     is_estimated |-> FALSE]

\* lines 175-213: climate zone of a known location, else generic
location_fallback(db, location_id, n_days) ==
    LET found == location_rows(db, location_id)
    IN  IF found # {} /\ (CHOOSE r \in found : TRUE).climate_zone \in DOMAIN zone_estimates
        THEN climate_zone_tier((CHOOSE r \in found : TRUE).climate_zone, n_days)
        ELSE generic_tier(n_days)

get_degree_days(db, location_id, start_date, end_date) ==
    LET daily == daily_in_range(db, location_id, start_date, end_date)
        monthly == monthly_in_range(db, location_id, start_date, end_date)
        n_days == days_diff(start_date, end_date)
    IN  IF sql_count(daily) = 0
        THEN IF avg_daily(monthly, "total_heating_degree_days") # None
             THEN monthly_tier(monthly, n_days)
             ELSE location_fallback(db, location_id, n_days)
        ELSE exact_tier(daily)

\* --------------------------------------------------- get_weather_profile
\* SELECT MAX(year) FROM monthly_stats WHERE location_id = ?
max_year(db, location_id) ==
    LET ys == {r.year : r \in {x \in DOMAIN db.monthly_stats : x.location_id = location_id}}
    IN  IF ys = {} THEN None ELSE <<CHOOSE y \in ys : \A z \in ys : z <= y>>

\* lines 259-269: the year asked for, else the latest stored, else the current one
profile_year(db, location_id, year, now_year) ==
    IF year # 0 THEN year
    ELSE IF max_year(db, location_id) # None /\ max_year(db, location_id)[1] # 0
         THEN max_year(db, location_id)[1]
         ELSE now_year

\* lines 304-316
climate_indicators(monthly_data, event_data) ==
    LET hdds == [r \in monthly_data |-> 1]
        total_hdd == or_zero(sql_sum(hdds, "total_heating_degree_days"))
        total_cdd == or_zero(sql_sum(hdds, "total_cooling_degree_days"))
        strong == {e \in event_data : RLt(RInt(5), e.energy_impact_score)}
    IN  [annual_hdd |-> total_hdd,
         annual_cdd |-> total_cdd,
         heating_dominated |-> RLt(total_cdd, total_hdd),
         cooling_dominated |-> RLt(total_hdd, total_cdd),
         extreme_events_frequency |->
             Cardinality({e \in event_data : RLt(RInt(3), e.avg_severity)}),
         severe_weather_score |->
             or_zero(sql_sum([e \in strong |-> 1], "energy_impact_score")),
         estimated_annual_energy_impact |->
             RDiv(RAdd(RMul(total_hdd, Rat(5, 10)), RMul(total_cdd, Rat(7, 10))),
                  RInt(1000))]

get_weather_profile(db, location_id, year, now_year) ==
    LET found == location_rows(db, location_id)
        y == profile_year(db, location_id, year, now_year)
        monthly_data == {r \in DOMAIN db.monthly_stats :
                            r.location_id = location_id /\ r.year = y}
        event_data == {r \in DOMAIN db.event_stats : r.location_id = location_id}
    IN  IF found = {} THEN [error |-> "Location not found"]
        ELSE [location |-> CHOOSE r \in found : TRUE,
              monthly_data |->
                  [m \in {r.month : r \in monthly_data} |->
                      CHOOSE r \in monthly_data : r.month = m],
              event_stats |->
                  [t \in {r.event_type : r \in event_data} |->
                      CHOOSE r \in event_data : r.event_type = t],
              climate_indicators |-> climate_indicators(monthly_data, event_data)]

\* --------------------------------------- get_seasonal_adjustment_factors
\* lines 359-369: the placeholder of a month with no stored data
season_placeholder(month) ==
    IF month \in {12, 1, 2} THEN [hdd |-> RInt(20), cdd |-> RInt(0)]
    ELSE IF month \in {3, 4, 5} THEN [hdd |-> RInt(10), cdd |-> RInt(5)]
    ELSE IF month \in {6, 7, 8} THEN [hdd |-> RInt(0), cdd |-> RInt(20)]
    ELSE [hdd |-> RInt(10), cdd |-> RInt(5)]

\* lines 337-373: AVG per month over all years, placeholders, combined
monthly_combined(db, location_id) ==
    [month \in 1..12 |->
        LET rows == sub_bag(db.monthly_stats,
                            {r \in DOMAIN db.monthly_stats :
                                r.location_id = location_id /\ r.month = month})
            data == IF DOMAIN rows = {} THEN season_placeholder(month)
                    ELSE [hdd |-> or_zero(sql_avg(rows, "total_heating_degree_days")),
                          cdd |-> or_zero(sql_avg(rows, "total_cooling_degree_days"))]
        IN  RAdd(data.hdd, data.cdd)]

\* max(0.6, min(1.8, factor))
clamp_factor(factor) == RMax(Rat(6, 10), RMin(Rat(18, 10), factor))

\* variant: with no degree days at all the factor is 0 before the clamp
get_seasonal_adjustment_factors_zero(db, location_id) ==
    LET combined == monthly_combined(db, location_id)
        avg_combined == RDiv(RSum(combined), RInt(12))
    IN  [month \in 1..12 |->
            clamp_factor(IF RLt(RInt(0), avg_combined)
                         THEN RDiv(combined[month], avg_combined)
                         ELSE RInt(0))]

get_seasonal_adjustment_factors(db, location_id) ==
    LET combined == monthly_combined(db, location_id)
        avg_combined == RDiv(RSum(combined), RInt(12))
    IN  [month \in 1..12 |->
            clamp_factor(IF RLt(RInt(0), avg_combined)
                         THEN RDiv(combined[month], avg_combined)
                         ELSE RInt(1))]

\* ------------------------------ calculate_weather_normalized_consumption
\* An item is a dict with or without the keys date and value. A date is a
\* string that strptime parses ([k |-> "date", month |-> m]), a string it
\* does not (Text) or None; a value is a number (Num) or None.
PyNone == [k |-> "none"]
DateStr(month) == [k |-> "date", month |-> month]

\* lines 415-432: the body of the loop. KeyError and ValueError are caught
\* and the item kept; a TypeError (strptime of None, None / factor) is not.
normalize_item(item, adjustment_factors) ==
    IF "date" \notin DOMAIN item THEN [raised |-> FALSE, item |-> item]
    ELSE IF item.date = PyNone THEN [raised |-> TRUE, item |-> item]
    ELSE IF item.date = Text THEN [raised |-> FALSE, item |-> item]
    ELSE IF "value" \notin DOMAIN item THEN [raised |-> FALSE, item |-> item]
    ELSE IF item.value = PyNone THEN [raised |-> TRUE, item |-> item]
    ELSE LET factor == adjustment_factors[item.date.month]
         IN  [raised |-> FALSE,
              item |-> [date |-> item.date, value |-> item.value,
                        weather_factor |-> factor,
                        normalized_value |-> RDiv(RInt(item.value.v), factor)]]

\* the list returned, or the exception that leaves the call
RECURSIVE normalize_items(_, _, _)
normalize_items(done, todo, adjustment_factors) ==
    IF todo = <<>> THEN [raised |-> FALSE, data |-> done]
    ELSE LET r == normalize_item(Head(todo), adjustment_factors)
         IN  IF r.raised THEN [raised |-> TRUE, data |-> <<>>]
             ELSE normalize_items(Append(done, r.item), Tail(todo), adjustment_factors)

calculate_weather_normalized_consumption(db, consumption_data, location_id) ==
    normalize_items(<<>>, consumption_data,
                    get_seasonal_adjustment_factors(db, location_id))

\* ------------------------------------------- get_weather_impact_for_hvac
\* lines 458-465: the period asked for, else from the first of this month a
\* year ago until today
hvac_period(time_period, now) ==
    IF time_period = <<>> THEN <<<<now[1] - 1, now[2], 1>>, now>> ELSE time_period

\* lines 476-516; 1 / improved_efficiency and the division by square_footage
\* raise ZeroDivisionError on a zero divisor
get_weather_impact_for_hvac(db, location_id, system_efficiency, square_footage, time_period, now) ==
    LET period == hvac_period(time_period, now)
        degree_days == get_degree_days(db, location_id, period[1], period[2])
        kWh_conversion == Rat(1, 3412)
        efficiency_factor == IF RLt(RInt(0), system_efficiency)
                             THEN RDiv(RInt(1), system_efficiency) ELSE Rat(125, 100)
        heating_energy_btu ==
            RMul(RMul(degree_days.total_hdd, RInt(square_footage)), Rat(15, 10))
        cooling_energy_btu ==
            RMul(RMul(degree_days.total_cdd, RInt(square_footage)), Rat(20, 10))
        heating_energy_kwh == RMul(RMul(heating_energy_btu, kWh_conversion), efficiency_factor)
        cooling_energy_kwh == RMul(RMul(cooling_energy_btu, kWh_conversion), efficiency_factor)
        improved_efficiency == RMin(Rat(95, 100), RAdd(system_efficiency, Rat(2, 10)))
        improved_efficiency_factor == RDiv(RInt(1), improved_efficiency)
        improved_heating_kwh ==
            RMul(RMul(heating_energy_btu, kWh_conversion), improved_efficiency_factor)
        improved_cooling_kwh ==
            RMul(RMul(cooling_energy_btu, kWh_conversion), improved_efficiency_factor)
        annual_savings ==
            RMul(RAdd(RSub(heating_energy_kwh, improved_heating_kwh),
                      RSub(cooling_energy_kwh, improved_cooling_kwh)), Rat(14, 100))
    IN  IF improved_efficiency = RInt(0) \/ square_footage = 0
        THEN [raised |-> TRUE]
        ELSE [raised |-> FALSE,
              degree_days |-> degree_days,
              heating_energy_kwh |-> heating_energy_kwh,
              cooling_energy_kwh |-> cooling_energy_kwh,
              total_energy_kwh |-> RAdd(heating_energy_kwh, cooling_energy_kwh),
              estimated_annual_cost |->
                  RMul(RAdd(heating_energy_kwh, cooling_energy_kwh), Rat(14, 100)),
              potential_annual_savings |-> annual_savings,
              efficiency_upgrade_roi |->
                  RDiv(annual_savings, RMul(RInt(square_footage), Rat(15, 10)))]

\* ------------------------------------------------------------------ inputs
D1 == <<2021, 7, 1>>
D2 == <<2021, 7, 2>>
D3 == <<2021, 8, 1>>
D4 == <<2021, 8, 20>>
D5 == <<2021, 8, 21>>

\* one CSV row, as read_csv hands it over (EventId is never read)
Row(type, severity, start, end, precipitation, zip, state, lat, city) ==
    [Type |-> type, Severity |-> severity, Start |-> start, End |-> end,
     Precipitation |-> precipitation, TimeZone |-> "US/Pacific",
     LocationLat |-> lat, LocationLng |-> Num(-118),
     City |-> city, County |-> "County", State |-> state, ZipCode |-> zip]

ColdExtreme ==
    Row("Cold", "Extreme", Ts(D1, 0), Ts(D1, 3), NaN, Num(90210), "CA", Num(34), "Beverly Hills")
HeatSevere ==
    Row("Heat", "Severe", Ts(D4, 12), Ts(D5, 18), Num(0), Num(90210), "CA", Num(26), "Los Angeles")
RainLight ==
    Row("Rain", "Light", Ts(D3, 6), Ts(D3, 8), Num(25), Num(90210), "CA", NaN, "Beverly Hills")
FogUnknown ==
    Row("Fog", "UNK", Ts(D2, 6), Ts(D2, 9), NaN, Num(73301), "TX", Num(30), "Austin")
SnowHeavy ==
    Row("Snow", "Heavy", Ts(D2, 0), Ts(D2, 12), Num(50), Num(10001), "NY", Num(41), "New York")
NoZip ==
    Row("Rain", "Moderate", Ts(D1, 0), Ts(D1, 1), Num(10), NaN, "CA", Num(34), "Beverly Hills")
NoType ==
    Row("NaN", "Light", Ts(D1, 0), Ts(D1, 1), Num(10), Num(90210), "CA", Num(34), "Beverly Hills")
BadDate ==
    Row("Cold", "Severe", Text, Ts(D1, 1), NaN, Num(90210), "CA", Num(34), "Beverly Hills")
BadPrecip ==
    Row("Rain", "Heavy", Ts(D1, 0), Ts(D1, 1), Text, Num(90210), "CA", Num(34), "Beverly Hills")
EndBeforeStart ==
    Row("Cold", "Extreme", Ts(D2, 12), Ts(D1, 0), NaN, Num(10001), "NY", Num(41), "New York")

\* rows of one location with temperatures on both sides of the base
ColdLight ==
    Row("Cold", "Light", Ts(D1, 0), Ts(D1, 3), NaN, Num(90210), "CA", Num(34), "Beverly Hills")
HeatLight ==
    Row("Heat", "Light", Ts(D1, 12), Ts(D1, 15), NaN, Num(90210), "CA", Num(26), "Los Angeles")
HeatExtreme ==
    Row("Heat", "Extreme", Ts(D2, 12), Ts(D2, 15), NaN, Num(90210), "CA", Num(34), "Beverly Hills")

AggregateRows == {ColdLight, HeatLight, HeatExtreme, RainLight, HeatSevere}

\* rows of the ingestion runs: complete, incomplete and malformed ones
Rows ==
    {ColdExtreme, RainLight, NoZip, NoType, BadDate, BadPrecip, EndBeforeStart}

\* rows of the runs that fill the store for the query layer
QueryRows == {ColdExtreme, HeatSevere, RainLight, SnowHeavy, FogUnknown}

\* every stream of at most MaxLen rows
StreamsOver(rows) == UNION {[1..n -> rows] : n \in 0..MaxLen}

\* headers that lack one required column
ShortHeaders == {required_columns \ {c} : c \in required_columns}

\* arguments of the queries
QueryLocations ==
    {<<90210, "", "_", "CA">>, <<10001, "", "_", "NY">>, <<73301, "", "_", "TX">>,
     <<99999, "", "_", "ZZ">>}
QueryDates == {D1, D2, D3, D4}
QueryYears == {0, 2021}
NowYears == {2026}

\* ------------------------------------------------------------------- state
VARIABLES
    columns,          \* the header of the input file
    stream,           \* the data rows of the input file
    chunk_size,       \* preprocess_weather_data's chunk_size
    max_chunks,       \* preprocess_weather_data's max_chunks, 0 for None
    pc,               \* idle, reading, save_location, save_monthly, save_event,
                      \* finish, done, error (returned {'error': ...}), raised
    runs,             \* number of runs started
    chunks_processed,
    location_data, daily_weather, monthly_stats, event_stats,
    db,               \* the SQLite file: four tables and the indexes
    db_prev,          \* the store as it was when the current run began
    result            \* the last query and what it returned

vars == <<columns, stream, chunk_size, max_chunks, pc, runs, chunks_processed, location_data,
          daily_weather, monthly_stats, event_stats, db, db_prev, result>>

no_db ==
    [created |-> FALSE, locations |-> EmptyBag, daily_weather |-> EmptyBag,
     monthly_stats |-> EmptyBag, event_stats |-> EmptyBag, indexes |-> {}]

no_result == [op |-> "none"]

\* the input file of a run: a full header over any stream, or a header that
\* lacks a column over a stream of one row
InitFrom(streams, short_streams) ==
    /\ \/ columns = required_columns /\ stream \in streams
       \/ columns \in ShortHeaders /\ stream \in short_streams
    /\ chunk_size \in 1..MaxChunk
    /\ pc = "idle"
    /\ runs = 0
    /\ chunks_processed = 0
    /\ location_data = EmptyDict
    /\ daily_weather = EmptyDict
    /\ monthly_stats = EmptyDict
    /\ event_stats = EmptyDict
    /\ db = no_db
    /\ db_prev = no_db
    /\ result = no_result

InitOver(rows) == InitFrom(StreamsOver(rows), {<<r>> : r \in rows})

\* values of max_chunks: None, and a limit of one chunk
max_chunks_values == {0, 1}

Init == InitOver(Rows) /\ max_chunks = 0

\* ingestion runs with and without a limit on the chunks
InitIngest == InitOver(Rows) /\ max_chunks \in max_chunks_values

InitQuery == InitOver(QueryRows) /\ max_chunks = 0

\* ----------------------------------------------------------------- pipeline
\* variant: TimeZone is not on the list of required columns
missing_columns_no_tz(header) == (required_columns \ {"TimeZone"}) \ header

\* [col for col in required_columns if col not in sample_df.columns]
missing_columns(header) == required_columns \ header

\* CREATE TABLE IF NOT EXISTS, four times: existing tables keep their rows
create_tables(store) == [store EXCEPT !.created = TRUE]

\* the i-th chunk (i = 1, 2, ...) that pd.read_csv(chunksize=...) yields
chunk_at(rows, size, i) ==
    SubSeq(rows, (i - 1) * size + 1,
           IF i * size < Len(rows) THEN i * size ELSE Len(rows))

\* variant: the break on max_chunks is missing
more_chunks_no_limit == chunks_processed * chunk_size < Len(stream)

\* the loop goes on while the file has rows left and the break at lines
\* 214-216 (max_chunks and chunks_processed >= max_chunks) has not been taken
more_chunks ==
    /\ chunks_processed * chunk_size < Len(stream)
    /\ ~(max_chunks # 0 /\ chunks_processed >= max_chunks)

maps ==
    [location_data |-> location_data, daily_weather |-> daily_weather,
     monthly_stats |-> monthly_stats, event_stats |-> event_stats, raised |-> FALSE]

\* variant: a new run goes on with the maps the run before left
Begin_keeps_maps ==
    /\ pc \in {"idle", "done", "error", "raised"}
    /\ result = no_result
    /\ runs < MaxRuns
    /\ runs' = runs + 1
    /\ db_prev' = db
    /\ result' = no_result
    /\ chunks_processed' = 0
    /\ IF missing_columns(columns) # {}
       THEN pc' = "error" /\ db' = db
       ELSE pc' = "reading" /\ db' = create_tables(db)
    /\ UNCHANGED <<columns, stream, chunk_size, max_chunks, location_data,
                   daily_weather, monthly_stats, event_stats>>

\* lines 140-183: header check, then the store and the empty maps
Begin ==
    /\ pc \in {"idle", "done", "error", "raised"}
    /\ result = no_result
    /\ runs < MaxRuns
    /\ runs' = runs + 1
    /\ db_prev' = db
    /\ result' = no_result
    /\ chunks_processed' = 0
    /\ location_data' = EmptyDict
    /\ daily_weather' = EmptyDict
    /\ monthly_stats' = EmptyDict
    /\ event_stats' = EmptyDict
    /\ IF missing_columns(columns) # {}
       THEN pc' = "error" /\ db' = db
       ELSE pc' = "reading" /\ db' = create_tables(db)
    /\ UNCHANGED <<columns, stream, chunk_size, max_chunks>>

\* lines 192-216: one pass of the chunk loop
ProcessChunk ==
    /\ pc = "reading"
    /\ more_chunks
    /\ LET after == process_chunk(maps, chunk_at(stream, chunk_size, chunks_processed + 1))
       IN  /\ location_data' = after.location_data
           /\ daily_weather' = after.daily_weather
           /\ monthly_stats' = after.monthly_stats
           /\ event_stats' = after.event_stats
           /\ pc' = IF after.raised THEN "raised" ELSE "reading"
    /\ chunks_processed' = chunks_processed + 1
    /\ UNCHANGED <<columns, stream, chunk_size, max_chunks, runs, db, db_prev, result>>

\* line 222: save_daily_weather_data, once the loop has ended
SaveDaily ==
    /\ pc = "reading"
    /\ ~more_chunks
    /\ db' = [db EXCEPT !.daily_weather =
                 executemany(@, {daily_row(k, daily_weather[k]) : k \in DOMAIN daily_weather},
                             pk_daily_weather)]
    /\ pc' = "save_location"
    /\ UNCHANGED <<columns, stream, chunk_size, max_chunks, runs, chunks_processed, location_data,
                   daily_weather, monthly_stats, event_stats, db_prev, result>>

\* line 225: save_location_data
SaveLocation ==
    /\ pc = "save_location"
    /\ db' = [db EXCEPT !.locations =
                 executemany(@, {location_row(k, location_data[k]) : k \in DOMAIN location_data},
                             pk_locations)]
    /\ pc' = "save_monthly"
    /\ UNCHANGED <<columns, stream, chunk_size, max_chunks, runs, chunks_processed, location_data,
                   daily_weather, monthly_stats, event_stats, db_prev, result>>

\* line 228: save_monthly_statistics
SaveMonthly ==
    /\ pc = "save_monthly"
    /\ db' = [db EXCEPT !.monthly_stats =
                 executemany(@, {monthly_row(k, monthly_stats[k]) : k \in DOMAIN monthly_stats},
                             pk_monthly_stats)]
    /\ pc' = "save_event"
    /\ UNCHANGED <<columns, stream, chunk_size, max_chunks, runs, chunks_processed, location_data,
                   daily_weather, monthly_stats, event_stats, db_prev, result>>

\* line 231: save_event_statistics
SaveEvent ==
    /\ pc = "save_event"
    /\ db' = [db EXCEPT !.event_stats =
                 executemany(@, {event_row(k, event_stats[k]) : k \in DOMAIN event_stats},
                             pk_event_stats)]
    /\ pc' = "finish"
    /\ UNCHANGED <<columns, stream, chunk_size, max_chunks, runs, chunks_processed, location_data,
                   daily_weather, monthly_stats, event_stats, db_prev, result>>

index_names ==
    {"idx_daily_weather_date", "idx_daily_weather_location",
     "idx_monthly_stats_year_month", "idx_monthly_stats_location",
     "idx_locations_state", "idx_locations_zip",
     "idx_event_stats_location", "idx_event_stats_type"}

\* lines 234-241: generate_degree_day_data (JSON files only), create_indexes,
\* commit, close
Finish ==
    /\ pc = "finish"
    /\ db' = [db EXCEPT !.indexes = @ \cup index_names]
    /\ pc' = "done"
    /\ UNCHANGED <<columns, stream, chunk_size, max_chunks, runs, chunks_processed, location_data,
                   daily_weather, monthly_stats, event_stats, db_prev, result>>

\* -------------------------------------------------------------- query layer
\* A session of the query layer: connect (needs the database file), one call,
\* close. Reads and writes are not interleaved: a session opens on the store
\* of a completed run, and a run begins with no session open.
can_query == db.created /\ pc = "done" /\ result = no_result

\* WeatherDataIntegration.close: the caller has its answer
Close ==
    /\ result # no_result
    /\ result' = no_result
    /\ UNCHANGED <<columns, stream, chunk_size, max_chunks, pc, runs, chunks_processed, location_data,
                   daily_weather, monthly_stats, event_stats, db, db_prev>>

QueryDegreeDays ==
    /\ can_query
    /\ \E location_id \in QueryLocations, start_date \in QueryDates, end_date \in QueryDates :
          /\ DateLe(start_date, end_date)
          /\ result' = [op |-> "get_degree_days", location_id |-> location_id,
                        start_date |-> start_date, end_date |-> end_date,
                        out |-> get_degree_days(db, location_id, start_date, end_date)]
    /\ UNCHANGED <<columns, stream, chunk_size, max_chunks, pc, runs, chunks_processed, location_data,
                   daily_weather, monthly_stats, event_stats, db, db_prev>>

QueryWeatherProfile ==
    /\ can_query
    /\ \E location_id \in QueryLocations, year \in QueryYears, now_year \in NowYears :
          result' = [op |-> "get_weather_profile", location_id |-> location_id,
                     year |-> year,
                     out |-> get_weather_profile(db, location_id, year, now_year)]
    /\ UNCHANGED <<columns, stream, chunk_size, max_chunks, pc, runs, chunks_processed, location_data,
                   daily_weather, monthly_stats, event_stats, db, db_prev>>

QuerySeasonalFactors ==
    /\ can_query
    /\ \E location_id \in QueryLocations :
          result' = [op |-> "get_seasonal_adjustment_factors", location_id |-> location_id,
                     out |-> get_seasonal_adjustment_factors(db, location_id)]
    /\ UNCHANGED <<columns, stream, chunk_size, max_chunks, pc, runs, chunks_processed, location_data,
                   daily_weather, monthly_stats, event_stats, db, db_prev>>

Next ==
    \/ Begin
    \/ ProcessChunk
    \/ SaveDaily
    \/ SaveLocation
    \/ SaveMonthly
    \/ SaveEvent
    \/ Finish
    \/ QueryDegreeDays
    \/ QueryWeatherProfile
    \/ QuerySeasonalFactors
    \/ Close

\* ingestion runs over complete, incomplete and malformed rows
Spec == Init /\ [][Next]_vars

\* runs that fill the store, and the queries against it
QuerySpec == InitQuery /\ [][Next]_vars

\* the pipeline alone: preprocess_weather_data from its first line to its last
PipelineNext ==
    \/ Begin
    \/ ProcessChunk
    \/ SaveDaily
    \/ SaveLocation
    \/ SaveMonthly
    \/ SaveEvent
    \/ Finish

\* runs of the pipeline, with and without max_chunks
IngestSpec == InitIngest /\ [][PipelineNext]_vars

\* runs over the records of one location, days with and without temperature
InitAggregate == InitOver(AggregateRows) /\ max_chunks = 0

AggregateSpec == InitAggregate /\ [][PipelineNext]_vars

\* input files for a store that is written twice: two locations, days and
\* months that one file has and another lacks
RerunStreams ==
    {<<ColdLight, RainLight>>, <<HeatLight, HeatLight>>, <<HeatLight, SnowHeavy>>,
     <<SnowHeavy>>, <<HeatSevere, ColdLight, HeatExtreme>>}

\* main, --input: the next invocation is given another input file and the
\* same output directory
NewInput ==
    /\ pc = "done"
    /\ result = no_result
    /\ runs < MaxRuns
    /\ \E input_file \in RerunStreams \ {stream} : stream' = input_file
    /\ pc' = "idle"
    /\ UNCHANGED <<columns, chunk_size, max_chunks, runs, chunks_processed, location_data,
                   daily_weather, monthly_stats, event_stats, db, db_prev, result>>

RerunNext == PipelineNext \/ NewInput

\* runs of the pipeline into one store, over one input file after another
RerunSpec == InitFrom(RerunStreams, {}) /\ max_chunks = 0 /\ [][RerunNext]_vars

\* ------------------------------------------------------------ the services
\* a file with one record of the given kind on the first of every month
YearOf(row) ==
    [m \in 1..12 |-> [row EXCEPT !.Start = Ts(<<2021, m, 1>>, 0),
                                  !.End = Ts(<<2021, m, 1>>, 3)]]

\* a year of rain, of cold and of heat, and files of a single July day
ServiceStreams ==
    {YearOf(RainLight), YearOf(ColdLight), YearOf(HeatLight)} \cup StreamsOver({ColdLight})

ServiceLocations == {<<90210, "", "_", "CA">>, <<99999, "", "_", "ZZ">>}

\* items with and without date and value, with dates that parse and do not
ConsumptionItems ==
    {[date |-> DateStr(1), value |-> Num(900)],
     [date |-> DateStr(7), value |-> Num(300)],
     [date |-> Text, value |-> Num(300)],
     [date |-> PyNone, value |-> Num(300)],
     [value |-> Num(300)],
     [date |-> DateStr(7)],
     [date |-> DateStr(7), value |-> PyNone]}
ConsumptionSeries == UNION {[1..n -> ConsumptionItems] : n \in 0..MaxSeries}

Efficiencies == {Rat(-1, 2), Rat(-1, 5), RInt(0), Rat(4, 5), Rat(9, 10)}
SquareFootages == {3412}
TimePeriods == {<<>>, <<D1, D2>>, <<D3, D4>>}
Today == <<2026, 11, 5>>

InitService == InitFrom(ServiceStreams, {}) /\ max_chunks = 0

QueryNormalizedConsumption ==
    /\ can_query
    /\ \E location_id \in ServiceLocations, consumption_data \in ConsumptionSeries :
          result' = [op |-> "calculate_weather_normalized_consumption",
                     location_id |-> location_id,
                     consumption_data |-> consumption_data,
                     out |-> calculate_weather_normalized_consumption(
                                 db, consumption_data, location_id)]
    /\ UNCHANGED <<columns, stream, chunk_size, max_chunks, pc, runs, chunks_processed,
                   location_data, daily_weather, monthly_stats, event_stats, db, db_prev>>

QueryHvacImpact ==
    /\ can_query
    /\ \E location_id \in ServiceLocations, system_efficiency \in Efficiencies,
          square_footage \in SquareFootages, time_period \in TimePeriods :
          result' = [op |-> "get_weather_impact_for_hvac",
                     location_id |-> location_id,
                     system_efficiency |-> system_efficiency,
                     square_footage |-> square_footage,
                     time_period |-> time_period,
                     out |-> get_weather_impact_for_hvac(
                                 db, location_id, system_efficiency, square_footage,
                                 time_period, Today)]
    /\ UNCHANGED <<columns, stream, chunk_size, max_chunks, pc, runs, chunks_processed,
                   location_data, daily_weather, monthly_stats, event_stats, db, db_prev>>

ServiceNext ==
    \/ PipelineNext
    \/ QuerySeasonalFactors
    \/ QueryNormalizedConsumption
    \/ QueryHvacImpact
    \/ Close

\* runs over a year of records, and the services that build on the store
ServiceSpec == InitService /\ [][ServiceNext]_vars

\* ------------------------------------------------------------ the lookup
\* ZIP codes and states of the calls: stored and not stored, with and
\* without a state
LookupArgs == {<<90210, "">>, <<10001, "">>, <<99999, "">>} \X {"", "CA", "NY", "ZZ"}

QueryNearestLocation ==
    /\ can_query
    /\ \E args \in LookupArgs :
          \E out \in find_nearest_location(db, args[1], args[2]) :
              result' = [op |-> "find_nearest_location", zip_code |-> args[1],
                         state |-> args[2], out |-> out]
    /\ UNCHANGED <<columns, stream, chunk_size, max_chunks, pc, runs, chunks_processed, location_data,
                   daily_weather, monthly_stats, event_stats, db, db_prev>>

LookupNext ==
    \/ PipelineNext
    \/ QueryNearestLocation
    \/ Close

\* runs over several locations, and lookups in the store they leave
LookupSpec == InitQuery /\ [][LookupNext]_vars

\* ------------------------------------------------------ the pure functions
\* arguments of the calls: the listed types and severities and one unlisted
\* of each, durations below, at and above the cap, whole and fractional
EventTypes ==
    {"Cold", "Heat", "Snow", "Thunderstorm", "Rain", "Fog", "Hail", "Wind",
     "Hurricane", "Tornado", "Precipitation", "Cloudy", "Dust"}
Severities == {"Extreme", "Severe", "Moderate", "Light", "Heavy", "UNK", "Other"}
Durations ==
    {RInt(-36), RInt(0), Rat(1, 2), RInt(3), RInt(12), Rat(47, 2), RInt(24),
     RInt(25), RInt(48)}

\* no file, no run, no call yet
InitCalc ==
    /\ columns = required_columns
    /\ stream = <<>>
    /\ chunk_size = 1
    /\ max_chunks = 0
    /\ pc = "idle"
    /\ runs = 0
    /\ chunks_processed = 0
    /\ location_data = EmptyDict
    /\ daily_weather = EmptyDict
    /\ monthly_stats = EmptyDict
    /\ event_stats = EmptyDict
    /\ db = no_db
    /\ db_prev = no_db
    /\ result = no_result

\* a call of calculate_event_impact_score
CallImpactScore ==
    /\ pc = "idle"
    /\ \E event_type \in EventTypes, severity \in Severities, hours \in Durations :
          result' = [op |-> "calculate_event_impact_score", event_type |-> event_type,
                     severity |-> severity, duration_hours |-> hours,
                     out |-> calculate_event_impact_score(event_type, severity, hours)]
    /\ UNCHANGED <<columns, stream, chunk_size, max_chunks, pc, runs, chunks_processed,
                   location_data, daily_weather, monthly_stats, event_stats, db, db_prev>>

\* a call of extract_temperature
CallExtractTemperature ==
    /\ pc = "idle"
    /\ \E event_type \in EventTypes, severity \in Severities :
          result' = [op |-> "extract_temperature", event_type |-> event_type,
                     severity |-> severity,
                     out |-> extract_temperature(severity, event_type)]
    /\ UNCHANGED <<columns, stream, chunk_size, max_chunks, pc, runs, chunks_processed,
                   location_data, daily_weather, monthly_stats, event_stats, db, db_prev>>

CalcNext ==
    \/ CallImpactScore
    \/ CallExtractTemperature

\* calls of the two pure functions, one after another
CalcSpec == InitCalc /\ [][CalcNext]_vars

\* ======================================================================
\* Claims
\* ======================================================================
\* What the claims say is computed here from the tables directly, not with
\* the operators of the query layer.

\* the days of the months the inputs fall in
Calendar == {<<2021, m, d>> : m \in 7..8, d \in 1..31}

\* the number of days of [start, end], both ends included
InclusiveDays(start, end) ==
    Cardinality({d \in Calendar : DateLe(start, d) /\ DateLe(d, end)})

\* months counted from year 0
MonthIndex(year, month) == 12 * year + month

\* the daily rows of a location dated in [start, end]
DailyRowsOf(location_id, start, end) ==
    {r \in BagToSet(db.daily_weather) :
        r.location_id = location_id /\ DateLe(start, r.date) /\ DateLe(r.date, end)}

\* the monthly rows of a location from start's month to end's month
MonthlyRowsOf(location_id, start, end) ==
    {r \in BagToSet(db.monthly_stats) :
        /\ r.location_id = location_id
        /\ MonthIndex(start[1], start[2]) <= MonthIndex(r.year, r.month)
        /\ MonthIndex(r.year, r.month) <= MonthIndex(end[1], end[2])}

LocationRowsOf(location_id) ==
    {r \in BagToSet(db.locations) : r.location_id = location_id}

\* sum of a column over a set of rows
RECURSIVE SumOver(_, _)
SumOver(rows, col) ==
    IF rows = {} THEN RInt(0)
    ELSE LET r == CHOOSE x \in rows : TRUE
         IN  RAdd(r[col], SumOver(rows \ {r}, col))

MeanOver(rows, col) == RDiv(SumOver(rows, col), RInt(Cardinality(rows)))

IsDegreeDays == result.op = "get_degree_days"

\* the answer carries estimation_method = method
HasMethod(out, method) ==
    "estimation_method" \in DOMAIN out /\ out.estimation_method = method

\* C1: with no daily row in range and at least one monthly row from start's
\* month to end's month, get_degree_days answers with the monthly tier: the
\* averages are the mean of total/30 over those months, the totals are the
\* averages times the inclusive days of the range, is_estimated is true, and
\* the answer is neither the climate-zone nor the generic one.
C1_MonthlyTier ==
    IsDegreeDays =>
      LET daily == DailyRowsOf(result.location_id, result.start_date, result.end_date)
          monthly == MonthlyRowsOf(result.location_id, result.start_date, result.end_date)
          n == InclusiveDays(result.start_date, result.end_date)
          hdd == RDiv(MeanOver(monthly, "total_heating_degree_days"), RInt(30))
          cdd == RDiv(MeanOver(monthly, "total_cooling_degree_days"), RInt(30))
      IN  (daily = {} /\ monthly # {}) =>
            /\ result.out.is_estimated = TRUE
            /\ "estimation_method" \notin DOMAIN result.out
            /\ result.out.avg_hdd = hdd
            /\ result.out.avg_cdd = cdd
            /\ result.out.total_hdd = RMul(hdd, RInt(n))
            /\ result.out.total_cdd = RMul(cdd, RInt(n))
            /\ result.out.days_count = n

\* C1 witness: a monthly-tier answer averaged over two stored months
C1_Witness ==
    /\ IsDegreeDays
    /\ DailyRowsOf(result.location_id, result.start_date, result.end_date) = {}
    /\ Cardinality(MonthlyRowsOf(result.location_id, result.start_date,
                                 result.end_date)) = 2
    /\ result.out.is_estimated = TRUE
    /\ result.out.avg_hdd # RInt(0)
    /\ result.out.avg_cdd # RInt(0)

\* C2: with at least one daily row in range, get_degree_days answers from the
\* daily rows alone: is_estimated is false, days_count is the number of rows,
\* the totals are their sums and the averages their means, whether or not the
\* rows carry a temperature or cover the range.
C2_ExactTier ==
    IsDegreeDays =>
      LET daily == DailyRowsOf(result.location_id, result.start_date, result.end_date)
      IN  daily # {} =>
            /\ result.out.is_estimated = FALSE
            /\ "estimation_method" \notin DOMAIN result.out
            /\ result.out.days_count = Cardinality(daily)
            /\ result.out.total_hdd = SumOver(daily, "heating_degree_days")
            /\ result.out.total_cdd = SumOver(daily, "cooling_degree_days")
            /\ result.out.avg_hdd = MeanOver(daily, "heating_degree_days")
            /\ result.out.avg_cdd = MeanOver(daily, "cooling_degree_days")

\* C2 witness: an exact answer over two rows, one with and one without a
\* temperature, that do not cover the range
C2_Witness ==
    /\ IsDegreeDays
    /\ LET daily == DailyRowsOf(result.location_id, result.start_date, result.end_date)
       IN  /\ Cardinality(daily) = 2
           /\ \E r \in daily : r.avg_temp = None
           /\ \E r \in daily : r.avg_temp # None
           /\ InclusiveDays(result.start_date, result.end_date) > 2
    /\ result.out.is_estimated = FALSE
    /\ result.out.total_hdd # RInt(0)

\* the fixed daily rates of the five climate zones
ZoneRates ==
    <<[hdd |-> Rat(1, 2), cdd |-> RInt(8)],
      [hdd |-> RInt(2), cdd |-> RInt(5)],
      [hdd |-> RInt(5), cdd |-> RInt(3)],
      [hdd |-> RInt(8), cdd |-> RInt(1)],
      [hdd |-> RInt(12), cdd |-> Rat(1, 2)]>>

\* C3: with no daily row in range, no monthly row over the range and a
\* location row of climate zone z in 1..5, get_degree_days answers with the
\* rates of zone z, scaled by the inclusive days of the range, and marks the
\* answer estimated by climate_zone.
C3_ClimateZoneTier ==
    IsDegreeDays =>
      LET daily == DailyRowsOf(result.location_id, result.start_date, result.end_date)
          monthly == MonthlyRowsOf(result.location_id, result.start_date, result.end_date)
          n == InclusiveDays(result.start_date, result.end_date)
      IN  \A loc \in LocationRowsOf(result.location_id) :
            (daily = {} /\ monthly = {} /\ loc.climate_zone \in 1..5) =>
              /\ result.out.is_estimated = TRUE
              /\ HasMethod(result.out, "climate_zone")
              /\ result.out.avg_hdd = ZoneRates[loc.climate_zone].hdd
              /\ result.out.avg_cdd = ZoneRates[loc.climate_zone].cdd
              /\ result.out.days_count = n
              /\ result.out.total_hdd = RMul(ZoneRates[loc.climate_zone].hdd, RInt(n))
              /\ result.out.total_cdd = RMul(ZoneRates[loc.climate_zone].cdd, RInt(n))

\* C3 witness: a climate-zone answer for a stored location over several days
C3_Witness ==
    /\ IsDegreeDays
    /\ LocationRowsOf(result.location_id) # {}
    /\ HasMethod(result.out, "climate_zone")
    /\ result.out.days_count > 1
    /\ result.out.avg_hdd = RInt(8)

\* C4: over the stores the pipeline writes, get_degree_days gives the generic
\* answer (5.0 and 3.0 a day, scaled by the inclusive days, estimated by
\* generic) exactly when there is no daily row in range, no monthly row over
\* the range and no location row; a stored location never gets it.
C4_GenericFallback ==
    IsDegreeDays =>
      LET daily == DailyRowsOf(result.location_id, result.start_date, result.end_date)
          monthly == MonthlyRowsOf(result.location_id, result.start_date, result.end_date)
          n == InclusiveDays(result.start_date, result.end_date)
          unknown == LocationRowsOf(result.location_id) = {}
      IN  /\ HasMethod(result.out, "generic") <=> (daily = {} /\ monthly = {} /\ unknown)
          /\ HasMethod(result.out, "generic") =>
               /\ result.out.is_estimated = TRUE
               /\ result.out.avg_hdd = RInt(5)
               /\ result.out.avg_cdd = RInt(3)
               /\ result.out.days_count = n
               /\ result.out.total_hdd = RInt(5 * n)
               /\ result.out.total_cdd = RInt(3 * n)

\* C4 witness: the generic answer, for a location the store does not hold,
\* from a store that holds others
C4_Witness ==
    /\ IsDegreeDays
    /\ HasMethod(result.out, "generic")
    /\ LocationRowsOf(result.location_id) = {}
    /\ BagToSet(db.locations) # {}
    /\ result.out.days_count > 1

\* C5 as stated: get_degree_days, get_weather_profile and
\* get_seasonal_adjustment_factors never return an error outcome because
\* data is missing; each returns an estimate, and the answer of
\* get_degree_days always carries is_estimated.
C5_NeverAnErrorOutcome ==
    /\ result.op = "get_degree_days" =>
          "is_estimated" \in DOMAIN result.out /\ "error" \notin DOMAIN result.out
    /\ result.op = "get_weather_profile" => "error" \notin DOMAIN result.out
    /\ result.op = "get_seasonal_adjustment_factors" => DOMAIN result.out = 1..12

\* C5, amended: get_degree_days always returns totals with an is_estimated
\* flag and get_seasonal_adjustment_factors always returns twelve factors in
\* [0.6, 1.8]; get_weather_profile returns the error outcome exactly when the
\* location has no row in locations, and a full profile otherwise.
C5_ErrorOnlyForUnknownLocation ==
    /\ result.op = "get_degree_days" =>
          /\ "error" \notin DOMAIN result.out
          /\ result.out.is_estimated \in BOOLEAN
          /\ RLe(RInt(0), result.out.total_hdd)
          /\ RLe(RInt(0), result.out.total_cdd)
    /\ result.op = "get_seasonal_adjustment_factors" =>
          /\ DOMAIN result.out = 1..12
          /\ \A m \in 1..12 :
                RLe(Rat(6, 10), result.out[m]) /\ RLe(result.out[m], Rat(18, 10))
    /\ result.op = "get_weather_profile" =>
          /\ "error" \in DOMAIN result.out <=> LocationRowsOf(result.location_id) = {}
          /\ "error" \notin DOMAIN result.out =>
                DOMAIN result.out =
                    {"location", "monthly_data", "event_stats", "climate_indicators"}

\* C5 witness: the error outcome of get_weather_profile, for a location the
\* store does not hold, from a store that holds others
C5_Witness ==
    /\ result.op = "get_weather_profile"
    /\ "error" \in DOMAIN result.out
    /\ LocationRowsOf(result.location_id) = {}
    /\ BagToSet(db.locations) # {}

\* the four tables of a store
TablesOf(store) ==
    <<store.locations, store.daily_weather, store.monthly_stats, store.event_stats>>

\* every row of the table is held once and no two rows share the key
OneRowPerKey(table, pk) ==
    /\ \A r \in DOMAIN table : table[r] = 1
    /\ \A r1, r2 \in DOMAIN table : key_of(r1, pk) = key_of(r2, pk) => r1 = r2

\* C6: a second run of the pipeline over the same input leaves the four
\* tables as the first run left them, with one row per primary key.
C6_Idempotent ==
    (pc = "done" /\ runs >= 2) =>
        /\ TablesOf(db) = TablesOf(db_prev)
        /\ OneRowPerKey(db.locations, pk_locations)
        /\ OneRowPerKey(db.daily_weather, pk_daily_weather)
        /\ OneRowPerKey(db.monthly_stats, pk_monthly_stats)
        /\ OneRowPerKey(db.event_stats, pk_event_stats)

\* C6 witness: a second run has completed over a store with rows in all
\* four tables, several of them daily rows
C6_Witness ==
    /\ pc = "done"
    /\ runs = 2
    /\ Cardinality(DOMAIN db.daily_weather) >= 2
    /\ DOMAIN db.locations # {}
    /\ DOMAIN db.monthly_stats # {}
    /\ DOMAIN db.event_stats # {}

\* C7: when the header lacks a required column the run ends with the error
\* outcome before any record is processed: no chunk is read, no map is
\* touched, the store is not created and no row is written.
C7_SchemaGate ==
    (\E c \in required_columns : c \notin columns) =>
        /\ pc \in {"idle", "error"}
        /\ chunks_processed = 0
        /\ location_data = EmptyDict
        /\ daily_weather = EmptyDict
        /\ monthly_stats = EmptyDict
        /\ event_stats = EmptyDict
        /\ db = no_db

\* C7 witness: a run over a file without the TimeZone column has ended with
\* the error outcome
C7_Witness ==
    /\ "TimeZone" \notin columns
    /\ runs >= 1
    /\ pc = "error"
    /\ stream # <<>>

\* the maps after the first n chunks of the stream, had the records of
\* removed not been in it
RECURSIVE AggregatedWithout(_, _)
AggregatedWithout(removed, n) ==
    IF n = 0
    THEN [location_data |-> EmptyDict, daily_weather |-> EmptyDict,
          monthly_stats |-> EmptyDict, event_stats |-> EmptyDict, raised |-> FALSE]
    ELSE process_chunk(AggregatedWithout(removed, n - 1),
                       SelectSeq(chunk_at(stream, chunk_size, n),
                                 LAMBDA r : r \notin removed))

\* records with a start or end time that is no date, or a precipitation that
\* is no number
Malformed ==
    {r \in Rows : r.Start.k = "text" \/ r.End.k = "text" \/ r.Precipitation.k = "text"}

\* records that lack the type, the severity, a time, the ZIP code or the state
Incomplete ==
    {r \in Rows : \/ r.Type = "NaN" \/ r.Severity = "NaN" \/ r.State = "NaN"
                  \/ r.Start.k = "nan" \/ r.End.k = "nan" \/ r.ZipCode.k = "nan"}

InRun == pc \in {"reading", "save_location", "save_monthly", "save_event", "finish", "done"}

\* C8 as stated: a record with an unparseable date or a non-numeric
\* precipitation costs only its own contribution: the run goes on, the other
\* records are aggregated as if it were absent, and the flush is reached.
C8_RowErrorSkipsOnlyThatRow ==
    /\ pc # "raised"
    /\ InRun => maps = AggregatedWithout(Malformed, chunks_processed)

\* C9 as stated: a record that lacks the type, the severity, a time, the ZIP
\* code or the state adds nothing to any map, and the records before and
\* after it are aggregated as they are without it.
C9_IncompleteRecordDropped ==
    InRun => maps = AggregatedWithout(Incomplete, chunks_processed)

\* the impact scores held in the maps
ImpactScores ==
    UNION {{daily_weather[k].impact_scores[i] :
                i \in 1..Len(daily_weather[k].impact_scores)} : k \in DOMAIN daily_weather}

\* C10 as stated: the impact score of every record the pipeline scores lies
\* in [0, 10], whatever the duration.
C10_ImpactScoreInRange ==
    \A score \in ImpactScores : RLe(RInt(0), score) /\ RLe(score, RInt(10))

IsImpactScore == result.op = "calculate_event_impact_score"

\* C11: for a fixed type and severity the impact score does not decrease as
\* the duration grows from 0 to 24 hours, and for every duration of 24 hours
\* or more it is the score of 24 hours.
C11_MonotoneThenConstant ==
    IsImpactScore =>
      LET d == result.duration_hours
          score(h) == calculate_event_impact_score(result.event_type, result.severity, h)
      IN  /\ \A h \in Durations :
                (RLe(RInt(0), d) /\ RLe(d, h) /\ RLe(h, RInt(24))) =>
                    RLe(result.out, score(h))
          /\ RLe(RInt(24), d) => result.out = score(RInt(24))

\* C11 witness: a call above the cap, with a score that is the one at 24
\* hours and higher than the one at 12
C11_Witness ==
    /\ IsImpactScore
    /\ result.duration_hours = RInt(48)
    /\ result.out = calculate_event_impact_score(result.event_type, result.severity, RInt(24))
    /\ RLt(calculate_event_impact_score(result.event_type, result.severity, RInt(12)),
           result.out)

\* the base impact of the twelve listed types
BaseTable ==
    [Cold |-> Rat(9, 1), Heat |-> Rat(17, 2), Snow |-> Rat(7, 1),
     Thunderstorm |-> Rat(6, 1), Rain |-> Rat(4, 1), Fog |-> Rat(2, 1),
     Hail |-> Rat(5, 1), Wind |-> Rat(3, 1), Hurricane |-> Rat(10, 1),
     Tornado |-> Rat(10, 1), Precipitation |-> Rat(7, 2), Cloudy |-> Rat(1, 1)]

\* the multiplier of the six listed severities
MultTable ==
    [Extreme |-> Rat(1, 1), Severe |-> Rat(4, 5), Moderate |-> Rat(3, 5),
     Light |-> Rat(3, 10), Heavy |-> Rat(9, 10), UNK |-> Rat(1, 2)]

\* C12: the impact score is min(10, base x mult x (0.5 + 0.5 x min(duration,
\* 24) / 24)), with base 1.0 for an unlisted type and mult 0.5 for an
\* unlisted severity.
C12_ScoreFormula ==
    IsImpactScore =>
      LET base == IF result.event_type \in DOMAIN BaseTable
                  THEN BaseTable[result.event_type] ELSE RInt(1)
          mult == IF result.severity \in DOMAIN MultTable
                  THEN MultTable[result.severity] ELSE Rat(1, 2)
          capped == IF RLe(result.duration_hours, RInt(24))
                    THEN result.duration_hours ELSE RInt(24)
          raw == RMul(RMul(base, mult),
                      RAdd(Rat(1, 2), RDiv(capped, RInt(48))))
      IN  result.out = IF RLe(raw, RInt(10)) THEN raw ELSE RInt(10)

\* C12 witness: Cold, Extreme, 3 hours gives 5.0625
C12_Witness ==
    /\ IsImpactScore
    /\ result.event_type = "Cold"
    /\ result.severity = "Extreme"
    /\ result.duration_hours = RInt(3)
    /\ result.out = Rat(50625, 10000)

\* C13: extract_temperature gives 10, 20, 30 for an Extreme, Severe, Moderate
\* Cold event and 40 for any other severity, 105, 100, 95 for Heat and 90 for
\* any other severity, and no temperature for any other type.
C13_TemperatureTable ==
    result.op = "extract_temperature" =>
      LET step == CASE result.severity = "Extreme" -> 0
                    [] result.severity = "Severe" -> 1
                    [] result.severity = "Moderate" -> 2
                    [] OTHER -> 3
      IN  result.out = CASE result.event_type = "Cold" -> RInt(10 + 10 * step)
                         [] result.event_type = "Heat" -> RInt(105 - 5 * step)
                         [] OTHER -> None

\* C13 witness: a Heat event of a severity off the table gets 90
C13_Witness ==
    /\ result.op = "extract_temperature"
    /\ result.event_type = "Heat"
    /\ result.severity = "Heavy"
    /\ result.out = RInt(90)

\* C14: every daily_weather row has heating_degree_days = max(0, 65 -
\* avg_temp) and cooling_degree_days = max(0, avg_temp - 65) when it has an
\* avg_temp and 0 for both when it has none; so at most one of the two is not
\* zero, and exactly one unless avg_temp is 65 or absent.
C14_DailyDegreeDays ==
    \A r \in BagToSet(db.daily_weather) :
        LET hdd == r.heating_degree_days
            cdd == r.cooling_degree_days
            zero == RInt(0)
        IN  /\ r.avg_temp = None => (hdd = zero /\ cdd = zero)
            /\ r.avg_temp # None =>
                  /\ hdd = (IF RLe(r.avg_temp, RInt(65))
                            THEN RSub(RInt(65), r.avg_temp) ELSE zero)
                  /\ cdd = (IF RLe(RInt(65), r.avg_temp)
                            THEN RSub(r.avg_temp, RInt(65)) ELSE zero)
            /\ hdd = zero \/ cdd = zero
            /\ (r.avg_temp # None /\ r.avg_temp # RInt(65)) => (hdd # zero \/ cdd # zero)

\* C14 witness: the table holds a day at 65 degrees with both at zero and a
\* hot day
C14_Witness ==
    /\ \E r \in BagToSet(db.daily_weather) :
          r.avg_temp = RInt(65) /\ r.heating_degree_days = RInt(0)
                                /\ r.cooling_degree_days = RInt(0)
    /\ \E r \in BagToSet(db.daily_weather) :
          r.avg_temp # None /\ r.cooling_degree_days # RInt(0)

\* the daily rows of a location in a month that have a temperature
DailyRowsWithTemp(location_id, year, month) ==
    {r \in BagToSet(db.daily_weather) :
        /\ r.location_id = location_id
        /\ r.date[1] = year
        /\ r.date[2] = month
        /\ r.avg_temp # None}

\* C15 as stated: after the flush, for every month of a location with a
\* temperature sample, the monthly total_cooling_degree_days is 30 times the
\* mean of the daily cooling_degree_days of its days with a temperature, and
\* the monthly total_heating_degree_days 30 times the mean of the daily
\* heating_degree_days.
C15_MonthlyIsThirtyTimesDailyMean ==
    pc = "done" =>
      \A m \in BagToSet(db.monthly_stats) :
         m.avg_temp # None =>
           LET days == DailyRowsWithTemp(m.location_id, m.year, m.month)
           IN  /\ m.total_cooling_degree_days =
                     RMul(RInt(30), MeanOver(days, "cooling_degree_days"))
               /\ m.total_heating_degree_days =
                     RMul(RInt(30), MeanOver(days, "heating_degree_days"))

\* the combined degree days of a month of a location: the mean heating plus
\* the mean cooling total of its stored rows, or the seasonal placeholder
CombinedOf(location_id, month) ==
    LET rows == {r \in BagToSet(db.monthly_stats) :
                    r.location_id = location_id /\ r.month = month}
    IN  IF rows = {}
        THEN (IF month \in {12, 1, 2, 6, 7, 8} THEN RInt(20) ELSE RInt(15))
        ELSE RAdd(MeanOver(rows, "total_heating_degree_days"),
                  MeanOver(rows, "total_cooling_degree_days"))

IsUniform(location_id) ==
    \A m \in 1..12 : CombinedOf(location_id, m) = CombinedOf(location_id, 1)

\* C16: when the combined degree days of a location are the same for all
\* twelve months, zero included, every seasonal adjustment factor is 1.0.
C16_UniformGivesOne ==
    (result.op = "get_seasonal_adjustment_factors" /\ IsUniform(result.location_id)) =>
        \A m \in 1..12 : result.out[m] = RInt(1)

\* C16 witness: the factors of a location with twelve stored months and no
\* degree days in any of them
C16_Witness ==
    /\ result.op = "get_seasonal_adjustment_factors"
    /\ \A m \in 1..12 : \E r \in BagToSet(db.monthly_stats) :
          r.location_id = result.location_id /\ r.month = m
    /\ \A m \in 1..12 : CombinedOf(result.location_id, m) = RInt(0)
    /\ \A m \in 1..12 : result.out[m] = RInt(1)

\* the factors of the twelve months of a location, from the claims' side
FactorOf(location_id, month) ==
    LET total == SumOver({[m |-> m, c |-> CombinedOf(location_id, m)] : m \in 1..12}, "c")
        raw == IF total = RInt(0) THEN RInt(1)
               ELSE RDiv(RMul(RInt(12), CombinedOf(location_id, month)), total)
    IN  IF RLt(raw, Rat(3, 5)) THEN Rat(3, 5)
        ELSE IF RLt(Rat(9, 5), raw) THEN Rat(9, 5) ELSE raw

\* C17 as stated: calculate_weather_normalized_consumption never aborts and
\* returns a series as long as its input, in the same order; an item with a
\* date that parses and a value carries its month's factor and value / factor;
\* an item with a date that does not parse or is missing comes back as it
\* went in.
C17_NormalizationPassesBadItems ==
    result.op = "calculate_weather_normalized_consumption" =>
      LET input == result.consumption_data
          data == result.out.data
      IN  /\ ~result.out.raised
          /\ Len(data) = Len(input)
          /\ \A i \in 1..Len(input) :
                LET item == input[i]
                    dated == "date" \in DOMAIN item /\ item.date.k = "date"
                    valued == "value" \in DOMAIN item /\ item.value.k = "num"
                IN  /\ (dated /\ valued) =>
                          LET factor == FactorOf(result.location_id, item.date.month)
                          IN  /\ factor # RInt(0)
                              /\ data[i].date = item.date
                              /\ data[i].value = item.value
                              /\ data[i].weather_factor = factor
                              /\ data[i].normalized_value = RDiv(RInt(item.value.v), factor)
                    /\ ~dated => data[i] = item

\* C18 as stated: get_weather_impact_for_hvac completes for every
\* system_efficiency; for an efficiency of 0 or less the energy of the current
\* scenario uses the inverse factor 1.25 and the improved scenario the
\* efficiency min(0.95, efficiency + 0.2), and savings and ROI are returned.
C18_HvacNeverFails ==
    result.op = "get_weather_impact_for_hvac" =>
      /\ ~result.out.raised
      /\ RLe(result.system_efficiency, RInt(0)) =>
            LET dd == result.out.degree_days
                per_kwh(total, btu) ==
                    RDiv(RMul(RMul(total, RInt(result.square_footage)), btu), RInt(3412))
                heating == per_kwh(dd.total_hdd, Rat(3, 2))
                cooling == per_kwh(dd.total_cdd, RInt(2))
                improved == RMin(Rat(19, 20), RAdd(result.system_efficiency, Rat(1, 5)))
                saved(kwh) == RSub(RMul(kwh, Rat(5, 4)), RDiv(kwh, improved))
                savings == RMul(RAdd(saved(heating), saved(cooling)), Rat(14, 100))
            IN  /\ result.out.heating_energy_kwh = RMul(heating, Rat(5, 4))
                /\ result.out.cooling_energy_kwh = RMul(cooling, Rat(5, 4))
                /\ result.out.potential_annual_savings = savings
                /\ result.out.efficiency_upgrade_roi =
                      RDiv(savings, RMul(RInt(result.square_footage), Rat(3, 2)))

\* the chunks the loop of a run goes through: all of the file, or max_chunks
\* of them when that is fewer
ChunksToProcess ==
    LET all == (Len(stream) + chunk_size - 1) \div chunk_size
    IN  IF max_chunks # 0 /\ max_chunks < all THEN max_chunks ELSE all

\* every one of the rows is in the table, once, alone under its key
Written(rows, table, pk) ==
    /\ OneRowPerKey(table, pk)
    /\ rows \subseteq DOMAIN table

\* C19: the flush happens once, after the stream: while a chunk remains no
\* row is written to any of the four tables; after the last chunk, or after
\* max_chunks chunks, daily_weather, locations, monthly_stats and event_stats
\* are written one after the other, each once, and the indexes are created
\* only after all four.
C19_FlushOnceAfterStream ==
    /\ pc \in {"reading", "raised", "error"} => TablesOf(db) = TablesOf(db_prev)
    /\ pc \in {"save_location", "save_monthly", "save_event", "finish", "done"} =>
          /\ chunks_processed = ChunksToProcess
          /\ Written({daily_row(k, daily_weather[k]) : k \in DOMAIN daily_weather},
                     db.daily_weather, pk_daily_weather)
    /\ pc = "save_location" => db.locations = db_prev.locations
    /\ pc \in {"save_location", "save_monthly"} => db.monthly_stats = db_prev.monthly_stats
    /\ pc \in {"save_location", "save_monthly", "save_event"} =>
          db.event_stats = db_prev.event_stats
    /\ pc \in {"save_monthly", "save_event", "finish", "done"} =>
          Written({location_row(k, location_data[k]) : k \in DOMAIN location_data},
                  db.locations, pk_locations)
    /\ pc \in {"save_event", "finish", "done"} =>
          Written({monthly_row(k, monthly_stats[k]) : k \in DOMAIN monthly_stats},
                  db.monthly_stats, pk_monthly_stats)
    /\ pc \in {"finish", "done"} =>
          Written({event_row(k, event_stats[k]) : k \in DOMAIN event_stats},
                  db.event_stats, pk_event_stats)
    /\ pc # "done" => db.indexes = db_prev.indexes
    /\ pc = "done" => db.indexes # {}

\* C19 witness: a run stopped by max_chunks with rows of the file unread has
\* written all four tables and then the indexes
C19_Witness ==
    /\ pc = "done"
    /\ max_chunks = 1
    /\ Len(stream) > chunk_size
    /\ chunks_processed = 1
    /\ DOMAIN db.daily_weather # {}
    /\ DOMAIN db.locations # {}
    /\ DOMAIN db.monthly_stats # {}
    /\ DOMAIN db.event_stats # {}
    /\ db.indexes # {}

\* the accepted records of the chunks processed so far, each with the key
\* it is aggregated under, in file order
RECURSIVE AcceptedSoFar(_)
AcceptedSoFar(n) ==
    IF n = 0 THEN <<>>
    ELSE LET chunk == chunk_at(stream, chunk_size, n)
             kept == SelectSeq(chunk, accepted)
         IN  AcceptedSoFar(n - 1) \o
             [i \in 1..Len(kept) |->
                 [event |-> kept[i],
                  key |-> make_location_id(kept[i], zip_is_float(chunk))]]

\* C20: a location is created by the first accepted record with its key;
\* every later accepted record with the key adds 1 to event_count and leaves
\* the other attributes as the first record set them; at the flush there is
\* one row per key, with event_frequency = event_count / 7.
C20_LocationLifecycle ==
    InRun =>
      LET seen == AcceptedSoFar(chunks_processed)
          at(key) == {i \in 1..Len(seen) : seen[i].key = key}
          first(key) == seen[CHOOSE i \in at(key) : \A j \in at(key) : i <= j].event
      IN  /\ DOMAIN location_data = {seen[i].key : i \in 1..Len(seen)}
          /\ \A key \in DOMAIN location_data :
                /\ location_data[key].event_count = Cardinality(at(key))
                /\ location_data[key].city = first(key).City
                /\ location_data[key].county = first(key).County
                /\ location_data[key].state = first(key).State
                /\ location_data[key].latitude = first(key).LocationLat
                /\ location_data[key].longitude = first(key).LocationLng
                /\ location_data[key].zip_code[1] = first(key).ZipCode.v
                /\ location_data[key].climate_zone =
                      estimate_climate_zone(first(key).LocationLat)
                /\ pc = "done" =>
                      \E r \in DOMAIN db.locations :
                         /\ r.location_id = key
                         /\ db.locations[r] = 1
                         /\ r.event_frequency = Rat(Cardinality(at(key)), 7)
                         /\ r.latitude = first(key).LocationLat
                         /\ \A q \in DOMAIN db.locations : q.location_id = key => q = r

\* C20 witness: a flushed location counted twice, whose second record has
\* another latitude than the first
C20_Witness ==
    /\ pc = "done"
    /\ \E key \in DOMAIN location_data :
          /\ location_data[key].event_count = 2
          /\ \E i, j \in 1..Len(AcceptedSoFar(chunks_processed)) :
                /\ i < j
                /\ AcceptedSoFar(chunks_processed)[i].key = key
                /\ AcceptedSoFar(chunks_processed)[j].key = key
                /\ AcceptedSoFar(chunks_processed)[i].event.LocationLat #
                       AcceptedSoFar(chunks_processed)[j].event.LocationLat
          /\ \E r \in DOMAIN db.locations :
                r.location_id = key /\ r.event_frequency = Rat(2, 7)

\* the location ids that key the four maps
KeysOf(m) ==
    [location_data |-> DOMAIN m.location_data,
     daily_weather |-> {k[1] : k \in DOMAIN m.daily_weather},
     monthly_stats |-> {k[1] : k \in DOMAIN m.monthly_stats},
     event_stats |-> {k[1] : k \in DOMAIN m.event_stats}]

\* C21 as stated: two accepted records get the same location_id exactly when
\* they have the same ZIP code and state, in whichever chunks they arrive,
\* and that one id keys the location, daily, monthly and event-type maps.
C21_LocationIdentity ==
    InRun =>
        LET acc == AcceptedSoFar(chunks_processed)
            ids == {acc[i].key : i \in 1..Len(acc)}
        IN  /\ \A i, j \in 1..Len(acc) :
                  (acc[i].key = acc[j].key) <=>
                      /\ acc[i].event.ZipCode.v = acc[j].event.ZipCode.v
                      /\ acc[i].event.State = acc[j].event.State
            /\ KeysOf(maps) = [location_data |-> ids, daily_weather |-> ids,
                               monthly_stats |-> ids, event_stats |-> ids]

\* the accepted records of the chunks processed so far, each with the daily
\* and the monthly key it fell on
KeyedSoFar ==
    LET acc == AcceptedSoFar(chunks_processed)
    IN  [i \in 1..Len(acc) |->
            [event |-> acc[i].event,
             daily |-> <<acc[i].key, acc[i].event.Start.date>>,
             monthly |-> <<acc[i].key, acc[i].event.Start.date[1],
                           acc[i].event.Start.date[2]>>]]

\* the extracted temperatures of the Cold and Heat records among recs
TemperaturesOf(recs) ==
    LET s == SelectSeq(recs, LAMBDA r : r.event.Type \in {"Cold", "Heat"})
    IN  [i \in 1..Len(s) |-> extract_temperature(s[i].event.Severity, s[i].event.Type)]

DailySamples(key) == TemperaturesOf(SelectSeq(KeyedSoFar, LAMBDA r : r.daily = key))
MonthlySamples(key) == TemperaturesOf(SelectSeq(KeyedSoFar, LAMBDA r : r.monthly = key))

InTemperatureRange(t) == RLe(RInt(10), t) /\ RLe(t, RInt(105))

\* C22: the temperature samples of a daily and of a monthly key are exactly
\* the extracted temperatures of the Cold and Heat records that fell on the
\* key; in the flushed rows avg/min/max temperature is absent exactly when no
\* such record fell on the key, and when present min <= avg <= max, all three
\* between 10 and 105.
C22_TemperaturePresence ==
    InRun =>
        /\ \A i \in 1..Len(KeyedSoFar) :
              /\ KeyedSoFar[i].daily \in DOMAIN daily_weather
              /\ KeyedSoFar[i].monthly \in DOMAIN monthly_stats
        /\ \A k \in DOMAIN daily_weather : daily_weather[k].temp_values = DailySamples(k)
        /\ \A k \in DOMAIN monthly_stats : monthly_stats[k].temp_values = MonthlySamples(k)
        /\ pc = "done" =>
              /\ \A r \in DOMAIN db.daily_weather :
                    LET none == DailySamples(<<r.location_id, r.date>>) = <<>>
                    IN  /\ (r.avg_temp = None) <=> none
                        /\ (r.min_temp = None) <=> none
                        /\ (r.max_temp = None) <=> none
                        /\ ~none =>
                              /\ RLe(r.min_temp, r.avg_temp)
                              /\ RLe(r.avg_temp, r.max_temp)
                              /\ InTemperatureRange(r.min_temp)
                              /\ InTemperatureRange(r.max_temp)
              /\ \A r \in DOMAIN db.monthly_stats :
                    LET none == MonthlySamples(<<r.location_id, r.year, r.month>>) = <<>>
                    IN  /\ (r.avg_temp = None) <=> none
                        /\ ~none => InTemperatureRange(r.avg_temp)

\* a flushed day with a Cold and a Heat record, min < avg < max, beside a day
\* with neither
C22_Witness ==
    /\ pc = "done"
    /\ \E r \in DOMAIN db.daily_weather :
          /\ Len(DailySamples(<<r.location_id, r.date>>)) = 2
          /\ RLt(r.min_temp, r.avg_temp) /\ RLt(r.avg_temp, r.max_temp)
    /\ \E r \in DOMAIN db.daily_weather :
          /\ r.avg_temp = None
          /\ \E i \in 1..Len(KeyedSoFar) : KeyedSoFar[i].daily = <<r.location_id, r.date>>

SevereTypes == {"Cold", "Snow", "Thunderstorm", "Hail", "Hurricane", "Tornado", "Heat"}

\* the severe records that fell on a daily key, the dates with a severe
\* record that fell on a monthly key
SevereOnDay(key) ==
    SelectSeq(KeyedSoFar, LAMBDA r : r.daily = key /\ r.event.Type \in SevereTypes)

SevereDatesOfMonth(key) ==
    {KeyedSoFar[i].event.Start.date :
        i \in {j \in 1..Len(KeyedSoFar) :
                  /\ KeyedSoFar[j].monthly = key
                  /\ KeyedSoFar[j].event.Type \in SevereTypes}}

\* C23: a record is severe iff its type is Cold, Snow, Thunderstorm, Hail,
\* Hurricane, Tornado or Heat; the daily severe_events counts the severe
\* records of the date, the monthly severe_event_days counts the distinct
\* dates of the month with a severe record, which is the number of the
\* month's daily rows with severe_events > 0.
C23_SevereEventCounting ==
    InRun =>
        /\ \A i \in 1..Len(KeyedSoFar) :
              (KeyedSoFar[i].event.Type \in SEVERE_WEATHER_TYPES) <=>
                  (KeyedSoFar[i].event.Type \in SevereTypes)
        /\ \A k \in DOMAIN daily_weather :
              daily_weather[k].severe_events = Len(SevereOnDay(k))
        /\ \A k \in DOMAIN monthly_stats :
              monthly_stats[k].severe_event_days = SevereDatesOfMonth(k)
        /\ pc = "done" =>
              /\ \A r \in DOMAIN db.daily_weather :
                    r.severe_events = Len(SevereOnDay(<<r.location_id, r.date>>))
              /\ \A r \in DOMAIN db.monthly_stats :
                    LET key == <<r.location_id, r.year, r.month>>
                        days == {d \in DOMAIN db.daily_weather :
                                    /\ d.location_id = r.location_id
                                    /\ d.date[1] = r.year /\ d.date[2] = r.month
                                    /\ d.severe_events > 0}
                    IN  /\ r.severe_event_days = Cardinality(SevereDatesOfMonth(key))
                        /\ r.severe_event_days = Cardinality(days)

\* a flushed month whose only severe day had two severe records, beside a
\* record that is not severe
C23_Witness ==
    /\ pc = "done"
    /\ \E r \in DOMAIN db.monthly_stats, d \in DOMAIN db.daily_weather :
          /\ d.location_id = r.location_id
          /\ d.date[1] = r.year /\ d.date[2] = r.month
          /\ d.severe_events = 2
          /\ r.severe_event_days = 1
    /\ \E i \in 1..Len(KeyedSoFar) : KeyedSoFar[i].event.Type \notin SevereTypes

\* 30 x max(0, a - b)
ThirtyTimesExcess(a, b) == RMul(RInt(30), RMax(RInt(0), RSub(a, b)))

\* C24: a monthly_stats row with avg_temp present has
\* total_heating_degree_days = 30 x max(0, 65 - avg_temp) and
\* total_cooling_degree_days = 30 x max(0, avg_temp - 65), avg_temp being the
\* mean of the month's temperature samples, whatever the length of the
\* calendar month; both totals are 0 when avg_temp is absent.
C24_ThirtyDayMonths ==
    pc = "done" =>
        \A r \in DOMAIN db.monthly_stats :
            LET samples == MonthlySamples(<<r.location_id, r.year, r.month>>)
            IN  IF samples = <<>>
                THEN /\ r.avg_temp = None
                     /\ r.total_heating_degree_days = RInt(0)
                     /\ r.total_cooling_degree_days = RInt(0)
                ELSE /\ r.avg_temp = RMean(samples)
                     /\ r.total_heating_degree_days =
                            ThirtyTimesExcess(RInt(65), r.avg_temp)
                     /\ r.total_cooling_degree_days =
                            ThirtyTimesExcess(r.avg_temp, RInt(65))

\* a flushed year with a temperature in February and in July and a non-zero
\* total in both
C24_Witness ==
    /\ pc = "done"
    /\ \E feb, jul \in DOMAIN db.monthly_stats :
          /\ feb.month = 2 /\ jul.month = 7
          /\ feb.avg_temp # None /\ jul.avg_temp # None
          /\ feb.total_heating_degree_days = jul.total_heating_degree_days
          /\ feb.total_cooling_degree_days = jul.total_cooling_degree_days
          /\ feb.total_heating_degree_days # RInt(0) \/ feb.total_cooling_degree_days # RInt(0)

\* s is an initial part of t
IsPrefix(s, t) == Len(s) <= Len(t) /\ SubSeq(t, 1, Len(s)) = s

\* every key of the old maps is a key of the new maps, and under it the
\* sample lists are extended, the sums and the counters are not smaller and
\* the day sets are not smaller
Grown(old, new) ==
    /\ \A k \in DOMAIN old.location_data :
          /\ k \in DOMAIN new.location_data
          /\ old.location_data[k].event_count <= new.location_data[k].event_count
    /\ \A k \in DOMAIN old.daily_weather :
          /\ k \in DOMAIN new.daily_weather
          /\ IsPrefix(old.daily_weather[k].temp_values, new.daily_weather[k].temp_values)
          /\ IsPrefix(old.daily_weather[k].impact_scores, new.daily_weather[k].impact_scores)
          /\ RLe(old.daily_weather[k].precipitation, new.daily_weather[k].precipitation)
          /\ old.daily_weather[k].severe_events <= new.daily_weather[k].severe_events
    /\ \A k \in DOMAIN old.monthly_stats :
          /\ k \in DOMAIN new.monthly_stats
          /\ IsPrefix(old.monthly_stats[k].temp_values, new.monthly_stats[k].temp_values)
          /\ IsPrefix(old.monthly_stats[k].impact_scores, new.monthly_stats[k].impact_scores)
          /\ RLe(old.monthly_stats[k].precipitation, new.monthly_stats[k].precipitation)
          /\ old.monthly_stats[k].severe_event_days \subseteq
                 new.monthly_stats[k].severe_event_days
    /\ \A k \in DOMAIN old.event_stats :
          /\ k \in DOMAIN new.event_stats
          /\ old.event_stats[k].count <= new.event_stats[k].count
          /\ IsPrefix(old.event_stats[k].severity_values, new.event_stats[k].severity_values)
          /\ IsPrefix(old.event_stats[k].impact_scores, new.event_stats[k].impact_scores)
          /\ RLe(old.event_stats[k].duration_total, new.event_stats[k].duration_total)

\* C25 as stated: within a run no key leaves the location, daily, monthly or
\* event-type map before the flush, and its sample lists, sums, counters and
\* day sets only grow as further records are processed, across chunks.
C25_MapsOnlyGrow == [][runs' = runs => Grown(maps, maps')]_vars

\* the maps after the first n chunks of the stream cut into chunks of size
RECURSIVE AggregatedBySize(_, _)
AggregatedBySize(size, n) ==
    IF n = 0
    THEN [location_data |-> EmptyDict, daily_weather |-> EmptyDict,
          monthly_stats |-> EmptyDict, event_stats |-> EmptyDict, raised |-> FALSE]
    ELSE process_chunk(AggregatedBySize(size, n - 1), chunk_at(stream, size, n))

\* the rows a flush of the maps writes to the four tables
RowsOf(m) ==
    [locations |-> {location_row(k, m.location_data[k]) : k \in DOMAIN m.location_data},
     daily_weather |-> {daily_row(k, m.daily_weather[k]) : k \in DOMAIN m.daily_weather},
     monthly_stats |-> {monthly_row(k, m.monthly_stats[k]) : k \in DOMAIN m.monthly_stats},
     event_stats |-> {event_row(k, m.event_stats[k]) : k \in DOMAIN m.event_stats}]

\* the rows held by the four tables of a store
Contents(store) ==
    [locations |-> DOMAIN store.locations,
     daily_weather |-> DOMAIN store.daily_weather,
     monthly_stats |-> DOMAIN store.monthly_stats,
     event_stats |-> DOMAIN store.event_stats]

\* C26 as stated: with no max_chunks limit, the final contents of locations,
\* daily_weather, monthly_stats and event_stats are the ones any other chunk
\* size gives for the same stream.
C26_ChunkingInvariant ==
    (pc = "done" /\ max_chunks = 0) =>
        \A size \in 1..MaxLen :
            LET other == AggregatedBySize(size, (Len(stream) + size - 1) \div size)
            IN  ~other.raised => Contents(db) = RowsOf(other)

\* the daily rows of a monthly row's location dated in its month
DaysOfMonthRow(m) ==
    {d \in DOMAIN db.daily_weather :
        d.location_id = m.location_id /\ d.date[1] = m.year /\ d.date[2] = m.month}

\* sum of the count column over a set of event_stats rows
RECURSIVE CountOver(_)
CountOver(rows) ==
    IF rows = {} THEN 0
    ELSE LET r == CHOOSE x \in rows : TRUE
         IN  r.count + CountOver(rows \ {r})

\* number of accepted records keyed by the location
AcceptedOf(location_id) ==
    Cardinality({i \in 1..Len(KeyedSoFar) : KeyedSoFar[i].daily[1] = location_id})

\* C27: after the flush the monthly precipitation of a location and month
\* is the sum of the precipitation of the location's daily rows dated in the
\* month, every monthly row has a daily row in its month, and the counts of a
\* location's event_stats rows add up to its number of accepted records.
C27_LevelsSynchronized ==
    pc = "done" =>
        /\ \A m \in DOMAIN db.monthly_stats :
              /\ DaysOfMonthRow(m) # {}
              /\ m.precipitation = SumOver(DaysOfMonthRow(m), "precipitation")
        /\ \A l \in DOMAIN db.locations :
              CountOver({e \in DOMAIN db.event_stats : e.location_id = l.location_id})
                  = AcceptedOf(l.location_id)

\* a flushed month with rain and two daily rows, in a location with two
\* event types
C27_Witness ==
    /\ pc = "done"
    /\ \E m \in DOMAIN db.monthly_stats :
          /\ Cardinality(DaysOfMonthRow(m)) = 2
          /\ RLt(RInt(0), m.precipitation)
          /\ Cardinality({e \in DOMAIN db.event_stats :
                             e.location_id = m.location_id}) = 2

\* the location ids found in a set of rows
IdsIn(rows) == {r.location_id : r \in rows}

\* C28: after a completed run every location_id of daily_weather,
\* monthly_stats and event_stats has exactly one row in locations, and every
\* location row has a daily, a monthly and an event-type row.
C28_ReferentialIntegrity ==
    pc = "done" =>
        /\ \A id \in IdsIn(DOMAIN db.daily_weather) \cup IdsIn(DOMAIN db.monthly_stats)
                       \cup IdsIn(DOMAIN db.event_stats) :
              /\ Cardinality({l \in DOMAIN db.locations : l.location_id = id}) = 1
              /\ \A l \in DOMAIN db.locations : l.location_id = id => db.locations[l] = 1
        /\ \A l \in DOMAIN db.locations :
              /\ l.location_id \in IdsIn(DOMAIN db.daily_weather)
              /\ l.location_id \in IdsIn(DOMAIN db.monthly_stats)
              /\ l.location_id \in IdsIn(DOMAIN db.event_stats)

\* a flushed store with two locations, one of them with two daily rows
C28_Witness ==
    /\ pc = "done"
    /\ Cardinality(DOMAIN db.locations) = 2
    /\ \E l \in DOMAIN db.locations :
          Cardinality({d \in DOMAIN db.daily_weather : d.location_id = l.location_id}) = 2

\* the keys of a set of rows
KeysIn(rows, pk) == {key_of(r, pk) : r \in rows}

\* the table holds every row of the run, and apart from the keys of the run
\* it holds the rows it held before
Replaced(table, before, new, pk) ==
    /\ OneRowPerKey(table, pk)
    /\ new \subseteq DOMAIN table
    /\ {r \in DOMAIN table : key_of(r, pk) \notin KeysIn(new, pk)}
           = {r \in DOMAIN before : key_of(r, pk) \notin KeysIn(new, pk)}

\* the rows computed from the present input alone
RowsOfInput ==
    RowsOf(AggregatedBySize(chunk_size, (Len(stream) + chunk_size - 1) \div chunk_size))

\* C29: when a run writes into a store that an earlier run populated, every
\* row whose primary key occurs in the run holds the values computed from the
\* run's input alone, and every row whose key does not occur in it is as the
\* earlier run left it.
C29_UpsertReplaces ==
    (pc = "done" /\ runs >= 2) =>
        /\ Replaced(db.locations, db_prev.locations, RowsOfInput.locations, pk_locations)
        /\ Replaced(db.daily_weather, db_prev.daily_weather,
                    RowsOfInput.daily_weather, pk_daily_weather)
        /\ Replaced(db.monthly_stats, db_prev.monthly_stats,
                    RowsOfInput.monthly_stats, pk_monthly_stats)
        /\ Replaced(db.event_stats, db_prev.event_stats,
                    RowsOfInput.event_stats, pk_event_stats)

\* a second run that has replaced a location row of the first run by another
\* and has left a daily row of the first run whose date its input lacks
C29_Witness ==
    /\ pc = "done" /\ runs = 2
    /\ \E old \in DOMAIN db_prev.locations, new \in DOMAIN db.locations :
          /\ key_of(old, pk_locations) = key_of(new, pk_locations)
          /\ old # new
          /\ new \in RowsOfInput.locations
    /\ \E d \in DOMAIN db.daily_weather :
          /\ d \in DOMAIN db_prev.daily_weather
          /\ key_of(d, pk_daily_weather) \notin KeysIn(RowsOfInput.daily_weather, pk_daily_weather)

\* the stored locations that match the ZIP code of the call, and its state
\* when it has one; the stored locations of the state of the call
ZipMatches ==
    {r \in DOMAIN db.locations :
        /\ r.zip_code = result.zip_code
        /\ result.state # "" => r.state = result.state}
StateMatches ==
    {r \in DOMAIN db.locations : result.state # "" /\ r.state = result.state}

\* the call answered with one of the rows
AnswersFrom(rows) == result.out.found /\ result.out.row \in rows

\* C30: find_nearest_location answers with a location that matches the ZIP
\* code (and the state, when one is given) whenever one is stored; otherwise,
\* when a state is given, with a location of the state if one is stored;
\* otherwise with any stored location; with None only when locations is
\* empty.
C30_LookupOrder ==
    result.op = "find_nearest_location" =>
        IF ZipMatches # {} THEN AnswersFrom(ZipMatches)
        ELSE IF StateMatches # {} THEN AnswersFrom(StateMatches)
        ELSE IF DOMAIN db.locations # {} THEN AnswersFrom(DOMAIN db.locations)
        ELSE ~result.out.found

\* a call with a ZIP code that is not stored and a state that is, in a store
\* that also has locations of other states
C30_Witness ==
    /\ result.op = "find_nearest_location"
    /\ ZipMatches = {}
    /\ StateMatches # {}
    /\ DOMAIN db.locations # StateMatches
    /\ AnswersFrom(StateMatches)

====
